---- MODULE Spec2Model ----
(***************************************************************************)
(* StockTrendAnalyzer, prediAgent/short_Term_Stock_Predictor.              *)
(*                                                                         *)
(* A model of the transport-negotiating client get_stock_prediction        *)
(* (A2AStockForcasterClient.py), of the tool client                        *)
(* get_a2a_short_term_prediction (A2AStockPredictionTool.py), and of the   *)
(* agent server they talk to (StockForcasterAgent.py: the handlers         *)
(* _jsonrpc_root and _invoke, and the tool short_term_predict).            *)
(*                                                                         *)
(* Spec runs one call of get_stock_prediction, ToolSpec one call of        *)
(* get_a2a_short_term_prediction, ServerSpec one request through a         *)
(* handler, PredictSpec one call of short_term_predict, and ConcSpec two   *)
(* concurrent calls of get_stock_prediction, and ForecastSpec one call of  *)
(* predict_short_term_price (ShortTerm_Prediction_Agent.py). A             *)
(* specification leaves the variables of the others at Idle.               *)
(*                                                                         *)
(* Python / JSON values are tagged records, so that values of different    *)
(* Python types can be compared: None, a str, a number, a list, a dict.    *)
(* A dict is a TLA+ function from its keys (strings) to values; a key the  *)
(* dict does not hold is not in its DOMAIN.                                *)
(***************************************************************************)
EXTENDS Integers, Sequences, FiniteSets, TLC

VARIABLES
    pc,           \* position of get_stock_prediction
    remote,       \* "any": an arbitrary remote; "repo": the handlers of StockForcasterAgent.py
    ticker,       \* the argument of get_stock_prediction
    reqs,         \* every HTTP request issued so far, in order
    inflight,     \* the requests issued and not yet answered
    cardResp,     \* the answer to the agent-card GET
    agent_card,   \* local agent_card
    candidates,   \* local candidates, after "Normalize and filter"
    tried,        \* number of candidates the for loop has taken
    rpcResp,      \* the answer to the last JSON-RPC POST, until the next request
    result,       \* local result
    invokeResp,   \* the answer to the /invoke POST
    outcome,      \* what the call reports when it ends
    exc,          \* the exception that left the function, "" when none
    tool,         \* a call of get_a2a_short_term_prediction: its position and locals
    server,       \* a request in a handler of the agent server
    predict,      \* a call of short_term_predict: its position, arguments and locals
    calls,        \* two concurrent calls of get_stock_prediction, each with its locals
    globals,      \* the module-level names of A2AStockForcasterClient.py
    forecaster    \* a call of predict_short_term_price: its position, arguments and locals

\* The state of get_stock_prediction.
clientVars == << pc, remote, ticker, reqs, inflight, cardResp, agent_card, candidates,
                 tried, rpcResp, result, invokeResp, outcome, exc >>

\* The state of everything else.
others == << tool, server, predict, calls, globals, forecaster >>

vars == << clientVars, others >>

----------------------------------------------------------------------------
(* Bounds of the model. *)

MaxSkills == 2

\* The longest output of the predictor, and the largest days, of short_term_predict.
MaxValues == 2

\* The largest forecast_days of predict_short_term_price.
MaxDays == 2

\* The longest Close column yf.download returns.
MaxClose == 2

----------------------------------------------------------------------------
(* Python values. *)

None == [kind |-> "none"]
Missing == [kind |-> "missing"]
Str(s) == [kind |-> "str", str |-> s]
Num(n) == [kind |-> "num", num |-> n]
Bool(b) == [kind |-> "bool", bool |-> b]
List(q) == [kind |-> "list", list |-> q]
Dict(f) == [kind |-> "dict", dict |-> f]

IsNone(v) == v.kind = "none"
IsStr(v) == v.kind = "str"
IsDict(v) == v.kind = "dict"
IsList(v) == v.kind = "list"

\* bool(v): Python truthiness.
Truthy(v) ==
    CASE v.kind = "none" -> FALSE
      [] v.kind = "str" -> v.str # ""
      [] v.kind = "num" -> v.num # 0
      [] v.kind = "bool" -> v.bool
      [] v.kind = "list" -> Len(v.list) > 0
      [] v.kind = "dict" -> DOMAIN v.dict # {}
      [] OTHER -> TRUE

\* k in d
HasKey(d, k) == k \in DOMAIN d.dict

\* d.get(k, dflt)
GetOr(d, k, dflt) == IF HasKey(d, k) THEN d.dict[k] ELSE dflt

\* d.get(k)
Get(d, k) == GetOr(d, k, None)

\* The dict holding the entries of the record all whose value is not Missing.
MkDict(all) ==
    Dict([k \in {j \in DOMAIN all : all[j].kind # "missing"} |-> all[k]])

\* str.upper(), on the strings the model uses.
Upper(s) ==
    CASE s = "jsonrpc" -> "JSONRPC"
      [] s = "JsonRpc" -> "JSONRPC"
      [] s = "http" -> "HTTP"
      [] s = "tna" -> "TNA"
      [] s = "msft" -> "MSFT"
      [] OTHER -> s

----------------------------------------------------------------------------
(* HTTP. *)

AGENT_CARD_PATH == "/.well-known/agent-card.json"
INVOKE_PATH == "/invoke"
ROOT_PATH == "/"

HttpGet(path) == [verb |-> "GET", path |-> path]
HttpPost(path, json) == [verb |-> "POST", path |-> path, json |-> json]

\* A response body is JSON text (given by the value it decodes to) or other text.
Json(v) == [kind |-> "json", json |-> v]
Text(s) == [kind |-> "text", text |-> s]

NoResp == [kind |-> "noresp"]
NetFail == [kind |-> "netfail"]
Http(status, body) == [kind |-> "http", status |-> status, body |-> body]

\* Response.raise_for_status() raises HTTPError.
IsHttpError(status) == status >= 400 /\ status < 600

----------------------------------------------------------------------------
(* The inputs: the ticker, and what the remote answers. *)

Tickers == { Str(""), Str("TNA"), Num(5) }

\* A forecast as short_term_predict returns it: date string -> float.
Forecast == Dict([d1 |-> Num(101), d2 |-> Num(102)])

\* preferredTransport values that are not a spelling of JSONRPC.
OtherPrefs == { Missing, None, Num(5), Str(""), Str("HTTP"), Str("JSON") }
RpcPrefs == { Str("JSONRPC"), Str("jsonrpc") }

CardNames == { Missing, Str(""), Str("model"), Str("x") }

\* SkillRef: a bare string, or a record with optional name and id.
SkillRefs ==
    { Str(""), Str("short_term_predict") }
    \cup { MkDict([name |-> n, id |-> i]) :
             n \in { Missing, Str("model"), Str("x") },
             i \in { Missing, Str("x"), Str("short_term_predict") } }

SkillLists == UNION { [1..n -> SkillRefs] : n \in 0..MaxSkills }

SkillsValues == { Missing, None, Num(7) } \cup { List(q) : q \in SkillLists }

CardOf(p, n, s) == MkDict([preferredTransport |-> p, name |-> n, skills |-> s])

\* Descriptors that do not ask for JSON-RPC; {} is among them.
NonRpcCards ==
    { CardOf(p, n, s) : p \in OtherPrefs, n \in { Missing, Str("x") },
                        s \in { Missing, List(<< Str("x") >>) } }

\* Descriptors that ask for JSON-RPC.
RpcCards ==
    { CardOf(p, n, s) : p \in RpcPrefs, n \in CardNames, s \in SkillsValues }

\* What the agent-card GET can end in.
CardResponses ==
    { NetFail,
      Http(404, Text("Not Found")),
      Http(500, Json(CardOf(Str("JSONRPC"), Str("x"), Missing))),
      Http(200, Text("<html>")),
      Http(200, Json(None)),
      Http(200, Json(Num(5))),
      Http(200, Json(List(<< Str("JSONRPC") >>))) }
    \cup { Http(200, Json(c)) : c \in NonRpcCards \cup RpcCards }

\* A JSON-RPC error object.
RpcError(code, message) == Dict([code |-> Num(code), message |-> Str(message)])

RpcErrorBody(code, message) ==
    Json(Dict([jsonrpc |-> Str("2.0"), error |-> RpcError(code, message), id |-> Num(1)]))

RpcResultBody(res) ==
    Json(Dict([jsonrpc |-> Str("2.0"), result |-> res, id |-> Num(1)]))

\* What an arbitrary remote can answer to a JSON-RPC POST.
AnyRpcResponses ==
    { NetFail,
      Http(200, Text("<html>")),
      Http(500, Text("Internal Server Error")),
      Http(200, Json(None)),
      Http(200, Json(List(<< >>))),
      Http(200, RpcResultBody(Forecast)),
      Http(200, RpcResultBody(None)),
      Http(200, RpcErrorBody(-32601, "Method not found")),
      Http(404, RpcErrorBody(-32601, "Method not found")),
      Http(200, RpcErrorBody(-32602, "Invalid params")),
      Http(400, RpcErrorBody(-32602, "Invalid params")),
      Http(500, RpcErrorBody(-32000, "boom")),
      Http(200, Json(Dict([error |-> Str("boom")]))),
      Http(200, Json(Dict([error |-> Dict([message |-> Str("boom")])]))),
      Http(200, Json(Dict([error |-> None, output |-> Forecast]))) }

\* What an arbitrary remote can answer to the /invoke POST.
AnyInvokeResponses ==
    { NetFail,
      Http(404, Json(Dict([ok |-> Bool(FALSE), error |-> Str("unknown action")]))),
      Http(404, Json(Dict([result |-> Forecast]))),
      Http(400, Json(Dict([ok |-> Bool(FALSE), error |-> Str("invalid json")]))),
      Http(500, Json(Dict([ok |-> Bool(FALSE), error |-> Str("boom")]))),
      Http(200, Text("101.5")),
      Http(204, Text("")),
      Http(300, Text("Multiple Choices")),
      Http(200, Json(None)),
      Http(200, Json(List(<< Num(101) >>))),
      Http(200, Json(Dict([ok |-> Bool(TRUE), result |-> Forecast]))),
      Http(200, Json(Dict([result |-> None]))),
      Http(200, Json(Dict([output |-> Forecast]))),
      Http(200, Json(Dict([result |-> Forecast, output |-> Str("text")]))),
      Http(200, Json(Dict([ok |-> Bool(FALSE)]))),
      Http(200, Json(Dict([prediction |-> Forecast]))) }

----------------------------------------------------------------------------
(* StockForcasterAgent.py: the tool and the two handlers. *)

EmptyDict == Dict(<< >>)

\* A function that is not called in the run.
Idle == [pc |-> "idle"]

Raise(e) == [kind |-> "raise", exc |-> e]
Return(v) == [kind |-> "return", value |-> v]

\* short_term_predict(ticker): the ways the call can end. ticker.upper() is
\* outside every try; inside, each path returns a forecast, except that a
\* failure of the pandas conversion is swallowed and the function falls off
\* its end.
short_term_predict(t) ==
    IF ~IsStr(t)
    THEN { Raise("AttributeError") }
    ELSE { Return(Forecast), Return(None) }

\* A handler that raises is answered by the framework with a plain 500.
ServerError == Http(500, Text("Internal Server Error"))

RECOGNISED_METHODS == { Str("model"), Str("short_term_stock_agent"), Str("short_term_predict") }

\* The ticker _jsonrpc_root finds in params; Raise when looking for it raises.
RootTicker(params) ==
    IF ~IsDict(params)
    THEN Return(None)
    ELSE LET ti == Get(params, "tool_inputs")
             tool_inputs == IF Truthy(ti) THEN ti ELSE EmptyDict
             nested == IsDict(tool_inputs) /\ HasKey(tool_inputs, "short_term_predict")
             inner == tool_inputs.dict["short_term_predict"]
         IN  IF nested /\ ~IsDict(inner)
             THEN Raise("AttributeError")
             ELSE LET t1 == IF nested THEN Get(inner, "ticker") ELSE None
                  IN  IF ~Truthy(t1) /\ HasKey(params, "ticker")
                      THEN Return(Get(params, "ticker"))
                      ELSE Return(t1)

\* _jsonrpc_root: the ways it can end on a request body: Return(response), or
\* Raise when the handler itself raises. body.get raises on a JSON value that
\* is not an object, and so does the search for the ticker.
jsonrpc_root_handler(body) ==
    IF body.kind = "text"
    THEN { Return(Http(400, Json(Dict([jsonrpc |-> Str("2.0"),
                                       error |-> RpcError(-32700, "Parse error")])))) }
    ELSE IF ~IsDict(body.json)
    THEN { Raise("AttributeError") }
    ELSE LET b == body.json
             method == Get(b, "method")
             p0 == GetOr(b, "params", EmptyDict)
             params == IF Truthy(p0) THEN p0 ELSE EmptyDict
             id == Get(b, "id")
             found == RootTicker(params)
         IN  IF method \notin RECOGNISED_METHODS
             THEN { Return(Http(404, Json(Dict([jsonrpc |-> Str("2.0"),
                        error |-> RpcError(-32601, "Method not found"), id |-> id])))) }
             ELSE IF found.kind = "raise"
             THEN { found }
             ELSE IF ~Truthy(found.value)
             THEN { Return(Http(400, Json(Dict([jsonrpc |-> Str("2.0"),
                        error |-> RpcError(-32602, "Invalid params: missing ticker"),
                        id |-> id])))) }
             ELSE { IF o.kind = "return"
                    THEN Return(Http(200, Json(Dict([jsonrpc |-> Str("2.0"),
                                                     result |-> o.value, id |-> id]))))
                    ELSE Return(Http(500, Json(Dict([jsonrpc |-> Str("2.0"),
                                              error |-> RpcError(-32000, o.exc), id |-> id]))))
                    : o \in short_term_predict(found.value) }

\* What the client of a handler that ended with o receives: the response the
\* handler returned, or the plain 500 of the framework when it raised.
Answered(o) == IF o.kind = "raise" THEN ServerError ELSE o.value

\* _jsonrpc_root: the responses it can give to a request body.
jsonrpc_root(body) == { Answered(o) : o \in jsonrpc_root_handler(body) }

\* short_term_predict(**kwargs) as _invoke calls it.
InvokeTool(kwargs) ==
    IF ~IsDict(kwargs) \/ ~HasKey(kwargs, "ticker")
       \/ ~(DOMAIN kwargs.dict \subseteq { "ticker", "days" })
    THEN { Raise("TypeError") }
    ELSE short_term_predict(kwargs.dict["ticker"])

\* _invoke: the ways it can end on a request body: Return(response), or Raise
\* when the handler itself raises, as body.get does on a JSON value that is
\* not an object.
invoke_handler(body) ==
    IF body.kind = "text"
    THEN { Return(Http(400, Json(Dict([ok |-> Bool(FALSE), error |-> Str("invalid json")])))) }
    ELSE IF ~IsDict(body.json)
    THEN { Raise("AttributeError") }
    ELSE LET b == body.json
             action == Get(b, "action")
             k0 == GetOr(b, "kwargs", EmptyDict)
             kwargs == IF Truthy(k0) THEN k0 ELSE EmptyDict
         IN  IF action \in { Str("short_term_predict"), Str("short_term_prediction") }
             THEN { IF o.kind = "return"
                    THEN Return(Http(200, Json(Dict([ok |-> Bool(TRUE), result |-> o.value]))))
                    ELSE Return(Http(500, Json(Dict([ok |-> Bool(FALSE),
                                                     error |-> Str(o.exc)]))))
                    : o \in InvokeTool(kwargs) }
             ELSE { Return(Http(404, Json(Dict([ok |-> Bool(FALSE),
                                                error |-> Str("unknown action"),
                                                action |-> action])))) }

\* _invoke: the responses it can give to a request body.
invoke(body) == { Answered(o) : o \in invoke_handler(body) }

----------------------------------------------------------------------------
(* A2AStockForcasterClient.py: the pure parts of get_stock_prediction. *)

\* The request payloads.
InvokePayload(t) ==
    Dict([action |-> Str("short_term_predict"), kwargs |-> Dict([ticker |-> t])])

RpcPayload(method_name, t) ==
    Dict([jsonrpc |-> Str("2.0"),
          method |-> method_name,
          params |-> Dict([tool_inputs |-> Dict([short_term_predict |-> Dict([ticker |-> t])])]),
          id |-> Num(1)])

CardRequest == HttpGet(AGENT_CARD_PATH)
RpcRequest(method_name, t) == HttpPost(ROOT_PATH, RpcPayload(method_name, t))
InvokeRequest(t) == HttpPost(INVOKE_PATH, InvokePayload(t))

\* ParseCard without the test of the status code.
ParseCardAnyStatus(r) ==
    IF r.kind = "netfail" THEN None
    ELSE IF r.body.kind = "text" THEN None
    ELSE IF ~IsDict(r.body.json) THEN None
    ELSE r.body.json

\* agent_card after the discovery block: the decoded body of a 200 answer when
\* it is a dict (agent_card.get, inside the try, raises on anything else), and
\* None otherwise.
ParseCard(r) ==
    IF r.kind = "netfail" THEN None
    ELSE IF r.status # 200 THEN None
    ELSE IF r.body.kind = "text" THEN None
    ELSE IF ~IsDict(r.body.json) THEN None
    ELSE r.body.json

\* The condition of the if that selects JSON-RPC. Raise: .upper() of a value
\* that is not a str.
PrefersJsonRpc(card) ==
    IF ~Truthy(card)
    THEN Return(FALSE)
    ELSE LET pref == GetOr(card, "preferredTransport", Str(""))
         IN  IF ~IsStr(pref)
             THEN Raise("AttributeError")
             ELSE Return(Upper(pref.str) = "JSONRPC")

\* What one skill appends to candidates.
SkillEntries(s) ==
    IF IsDict(s) THEN << Get(s, "name"), Get(s, "id") >> ELSE << s >>

RECURSIVE SkillCandidates(_)
SkillCandidates(skills) ==
    IF skills = << >>
    THEN << >>
    ELSE SkillEntries(Head(skills)) \o SkillCandidates(Tail(skills))

\* candidates, before "Normalize and filter".
RawCandidates(card, skills) ==
    << Str("model"), Get(card, "name") >> \o SkillCandidates(skills)

\* [c for c in (x for x in candidates if x) if not (c in seen or seen.add(c))]
RECURSIVE NormalizeFrom(_, _)
NormalizeFrom(q, seen) ==
    IF q = << >>
    THEN << >>
    ELSE LET c == Head(q)
         IN  IF ~Truthy(c) THEN NormalizeFrom(Tail(q), seen)
             ELSE IF c \in seen THEN NormalizeFrom(Tail(q), seen)
             ELSE << c >> \o NormalizeFrom(Tail(q), seen \cup { c })

\* Normalize without the seen set: empty entries go, repeats stay.
NormalizeWithoutSeen(q) == SelectSeq(q, Truthy)

Normalize(q) == NormalizeFrom(q, { })

\* The candidate list of a descriptor. Raise: skills that cannot be iterated
\* (of the values drawn here, every truthy one that is not a list is a number).
BuildCandidates(card) ==
    LET sk == Get(card, "skills")
        skills == IF Truthy(sk) THEN sk ELSE List(<< >>)
    IN  IF ~IsList(skills)
        THEN Raise("TypeError")
        ELSE Return(Normalize(RawCandidates(card, skills.list)))

\* call_jsonrpc without its except clause.
call_jsonrpc_uncaught(r) ==
    IF r.kind = "netfail" THEN { Raise("ConnectionError") }
    ELSE IF IsHttpError(r.status) THEN { Raise("HTTPError") }
    ELSE IF r.body.kind = "text" THEN { Raise("JSONDecodeError") }
    ELSE { Return(r.body.json) }

\* call_jsonrpc: what it returns for an answer. A 2xx body that is not JSON
\* makes resp.json() raise; whether that exception is a RequestException, and
\* so caught, depends on the installed requests.
call_jsonrpc(r) ==
    IF r.kind = "netfail" THEN { Return(None) }
    ELSE IF IsHttpError(r.status) THEN { Return(None) }
    ELSE IF r.body.kind = "text" THEN { Return(None), Raise("JSONDecodeError") }
    ELSE { Return(r.body.json) }

\* IsMethodNotFound with the code of "invalid request".
IsMethodNotFoundWrongCode(candidate_result) ==
    /\ IsDict(candidate_result)
    /\ Truthy(Get(candidate_result, "error"))
    /\ LET err == Get(candidate_result, "error")
           code == IF IsDict(err) THEN Get(err, "code") ELSE None
       IN  code = Num(-32600)

\* The test for "method not found" in the probing loop.
IsMethodNotFound(candidate_result) ==
    /\ IsDict(candidate_result)
    /\ Truthy(Get(candidate_result, "error"))
    /\ LET err == Get(candidate_result, "error")
           code == IF IsDict(err) THEN Get(err, "code") ELSE None
       IN  code = Num(-32601)

\* The loop moves on to the next candidate.
ProbeContinues(candidate_result) ==
    IsNone(candidate_result) \/ IsMethodNotFound(candidate_result)

\* InvokeResult without resp.raise_for_status(): only 404 is set apart.
InvokeResultOnly404(r) ==
    IF r.kind = "netfail" THEN None
    ELSE IF r.status = 404 THEN None
    ELSE IF r.body.kind = "text" THEN Str(r.body.text)
    ELSE r.body.json

\* result after the /invoke POST.
InvokeResult(r) ==
    IF r.kind = "netfail" THEN None
    ELSE IF r.status = 404 THEN None
    ELSE IF IsHttpError(r.status) THEN None
    ELSE IF r.body.kind = "text" THEN Str(r.body.text)
    ELSE r.body.json

Unavailable == [kind |-> "unavailable"]
Printed(v) == [kind |-> "printed", value |-> v]
Pending == [kind |-> "pending"]

\* Report without the test for None: None is printed like any value.
ReportNoneAsText(res) ==
    IF IsDict(res) /\ HasKey(res, "result") THEN Printed(res.dict["result"])
    ELSE IF IsDict(res) /\ HasKey(res, "output") THEN Printed(res.dict["output"])
    ELSE Printed(res)

\* What the function reports for result.
Report(res) ==
    IF IsNone(res) THEN Unavailable
    ELSE IF IsDict(res) /\ HasKey(res, "result") THEN Printed(res.dict["result"])
    ELSE IF IsDict(res) /\ HasKey(res, "output") THEN Printed(res.dict["output"])
    ELSE Printed(res)

----------------------------------------------------------------------------
(* get_stock_prediction as a state machine: one action per request issued   *)
(* and per answer handled.                                                  *)

Init ==
    /\ pc = "start"
    /\ \/ remote = "any" /\ ticker = Str("TNA")
       \/ remote = "repo" /\ ticker \in Tickers
    /\ reqs = << >>
    /\ inflight = { }
    /\ cardResp = NoResp
    /\ agent_card = None
    /\ candidates = << >>
    /\ tried = 0
    /\ rpcResp = NoResp
    /\ result = None
    /\ invokeResp = NoResp
    /\ outcome = Pending
    /\ exc = ""
    /\ tool = Idle
    /\ server = Idle
    /\ predict = Idle
    /\ calls = Idle
    /\ globals = Idle
    /\ forecaster = Idle

\* The request the client is waiting on.
Awaited == reqs[Len(reqs)]

\* What the remote can answer to the awaited JSON-RPC POST.
RpcResponses ==
    IF remote = "any"
    THEN AnyRpcResponses
    ELSE { NetFail } \cup jsonrpc_root(Json(Awaited.json))

\* What the remote can answer to the awaited /invoke POST.
InvokeResponses ==
    IF remote = "any"
    THEN AnyInvokeResponses
    ELSE { NetFail } \cup invoke(Json(Awaited.json))

\* requests.get(card_url, timeout=3)
FetchCard ==
    /\ pc = "start"
    /\ UNCHANGED others
    /\ reqs' = Append(reqs, CardRequest)
    /\ inflight' = inflight \cup { CardRequest }
    /\ pc' = "card_wait"
    /\ UNCHANGED << remote, ticker, cardResp, agent_card, candidates, tried, rpcResp,
                    result, invokeResp, outcome, exc >>

\* The GET ends; the discovery block sets agent_card.
RecvCard ==
    /\ pc = "card_wait"
    /\ UNCHANGED others
    /\ \E r \in CardResponses :
         /\ cardResp' = r
         /\ agent_card' = ParseCard(r)
    /\ inflight' = inflight \ { Awaited }
    /\ pc' = "select"
    /\ UNCHANGED << remote, ticker, reqs, candidates, tried, rpcResp, result,
                    invokeResp, outcome, exc >>

\* The if on preferredTransport and, in its JSON-RPC branch, the construction
\* of candidates.
SelectTransport ==
    /\ pc = "select"
    /\ UNCHANGED others
    /\ LET prefers == PrefersJsonRpc(agent_card)
           built == BuildCandidates(agent_card)
       IN  IF prefers.kind = "raise"
           THEN /\ pc' = "raised"
                /\ exc' = prefers.exc
                /\ UNCHANGED candidates
           ELSE IF ~prefers.value
           THEN /\ pc' = "direct_send"
                /\ UNCHANGED << candidates, exc >>
           ELSE IF built.kind = "raise"
           THEN /\ pc' = "raised"
                /\ exc' = built.exc
                /\ UNCHANGED candidates
           ELSE /\ pc' = "rpc_send"
                /\ candidates' = built.value
                /\ UNCHANGED exc
    /\ UNCHANGED << remote, ticker, reqs, inflight, cardResp, agent_card, tried, rpcResp,
                    result, invokeResp, outcome >>

\* NextCandidate taking the first candidate again.
NextCandidateSame(n, cands) == cands[1]

\* NextCandidate iterating from the end of the list.
NextCandidateReversed(n, cands) == cands[Len(cands) - n]

\* for method in candidates: the candidate taken after n others.
NextCandidate(n, cands) == cands[n + 1]

\* The loop takes the next candidate and call_jsonrpc POSTs it.
SendRpc ==
    /\ pc = "rpc_send"
    /\ UNCHANGED others
    /\ tried < Len(candidates)
    /\ tried' = tried + 1
    /\ reqs' = Append(reqs, RpcRequest(NextCandidate(tried, candidates), ticker))
    /\ inflight' = inflight \cup { RpcRequest(NextCandidate(tried, candidates), ticker) }
    /\ rpcResp' = NoResp
    /\ pc' = "rpc_wait"
    /\ UNCHANGED << remote, ticker, cardResp, agent_card, candidates, result, invokeResp,
                    outcome, exc >>

\* AfterRejected without the fallback to /invoke.
AfterRejectedNoFallback(n, cands) == IF n < Len(cands) THEN "rpc_send" ELSE "report"

\* Where the loop goes after a candidate that was not accepted.
AfterRejected(n, cands) == IF n < Len(cands) THEN "rpc_send" ELSE "fallback_send"

\* The POST ends; call_jsonrpc returns and the loop body decides.
RecvRpc ==
    /\ pc = "rpc_wait"
    /\ UNCHANGED others
    /\ \E r \in RpcResponses :
         /\ rpcResp' = r
         /\ \E o \in call_jsonrpc(r) :
              IF o.kind = "raise"
              THEN /\ pc' = "raised"
                   /\ exc' = o.exc
                   /\ UNCHANGED result
              ELSE IF ProbeContinues(o.value)
              THEN /\ pc' = AfterRejected(tried, candidates)
                   /\ UNCHANGED << result, exc >>
              ELSE /\ result' = o.value
                   /\ pc' = "report"
                   /\ UNCHANGED exc
    /\ inflight' = inflight \ { Awaited }
    /\ UNCHANGED << remote, ticker, reqs, cardResp, agent_card, candidates, tried,
                    invokeResp, outcome >>

\* if result is None: requests.post(invoke_url, ...) after the probing.
FallbackSend ==
    /\ pc = "fallback_send"
    /\ UNCHANGED others
    /\ reqs' = Append(reqs, InvokeRequest(ticker))
    /\ inflight' = inflight \cup { InvokeRequest(ticker) }
    /\ rpcResp' = NoResp
    /\ pc' = "fallback_wait"
    /\ UNCHANGED << remote, ticker, cardResp, agent_card, candidates, tried, result,
                    invokeResp, outcome, exc >>

FallbackRecv ==
    /\ pc = "fallback_wait"
    /\ UNCHANGED others
    /\ \E r \in InvokeResponses :
         /\ invokeResp' = r
         /\ result' = InvokeResult(r)
    /\ inflight' = inflight \ { Awaited }
    /\ pc' = "report"
    /\ UNCHANGED << remote, ticker, reqs, cardResp, agent_card, candidates, tried, rpcResp,
                    outcome, exc >>

\* else: requests.post(invoke_url, ...) without probing.
DirectSend ==
    /\ pc = "direct_send"
    /\ UNCHANGED others
    /\ reqs' = Append(reqs, InvokeRequest(ticker))
    /\ inflight' = inflight \cup { InvokeRequest(ticker) }
    /\ pc' = "direct_wait"
    /\ UNCHANGED << remote, ticker, cardResp, agent_card, candidates, tried, rpcResp,
                    result, invokeResp, outcome, exc >>

DirectRecv ==
    /\ pc = "direct_wait"
    /\ UNCHANGED others
    /\ \E r \in InvokeResponses :
         /\ invokeResp' = r
         /\ result' = InvokeResult(r)
    /\ inflight' = inflight \ { Awaited }
    /\ pc' = "report"
    /\ UNCHANGED << remote, ticker, reqs, cardResp, agent_card, candidates, tried, rpcResp,
                    outcome, exc >>

\* if result is None: ... return; otherwise the result is printed.
Finish ==
    /\ pc = "report"
    /\ UNCHANGED others
    /\ outcome' = Report(result)
    /\ pc' = "done"
    /\ UNCHANGED << remote, ticker, reqs, inflight, cardResp, agent_card, candidates, tried,
                    rpcResp, result, invokeResp, exc >>

Next ==
    \/ FetchCard
    \/ RecvCard
    \/ SelectTransport
    \/ SendRpc
    \/ RecvRpc
    \/ FallbackSend
    \/ FallbackRecv
    \/ DirectSend
    \/ DirectRecv
    \/ Finish

Spec == Init /\ [][Next]_vars

\* The call has ended: it returned or an exception left it.
Ended == pc \in { "done", "raised" }

TypeOK ==
    /\ pc \in { "start", "card_wait", "select", "rpc_send", "rpc_wait", "fallback_send",
                "fallback_wait", "direct_send", "direct_wait", "report", "done", "raised" }
    /\ remote \in { "any", "repo" }
    /\ tried \in 0..Len(candidates)
    /\ Cardinality(inflight) <= 1

----------------------------------------------------------------------------
(* A2AStockPredictionTool.py: get_a2a_short_term_prediction.               *)
(* tool is [pc, remote, ticker, reqs, resp, ret, exc]: the position of the *)
(* call, who answers it, its argument, the requests it issued, the answer  *)
(* to its POST, what it returned and the exception that left it.           *)

\* get_stock_prediction is not called.
ClientIdle ==
    /\ pc = "idle"
    /\ remote = "any"
    /\ ticker = None
    /\ reqs = << >>
    /\ inflight = { }
    /\ cardResp = NoResp
    /\ agent_card = None
    /\ candidates = << >>
    /\ tried = 0
    /\ rpcResp = NoResp
    /\ result = None
    /\ invokeResp = NoResp
    /\ outcome = Pending
    /\ exc = ""

ToolTickers == { Str(""), None, Num(5), Str("tna"), Str("TNA"), Str("msft") }

ToolStatuses == { 200, 201, 300, 404, 500 }

ToolBodies ==
    { Text("101.5"),
      Json(None),
      Json(Num(101)),
      Json(Bool(TRUE)),
      Json(Str("101.5")),
      Json(Str("result")),
      Json(List(<< Num(101), Num(102) >>)),
      Json(List(<< Str("output") >>)),
      Json(Forecast),
      Json(Dict([ok |-> Bool(TRUE), result |-> Forecast])),
      Json(Dict([result |-> None])),
      Json(Dict([output |-> Forecast])),
      Json(Dict([result |-> Forecast, output |-> Str("text")])),
      Json(Dict([ok |-> Bool(FALSE), error |-> Str("boom")])) }

\* What an arbitrary remote can answer to the POST of the tool.
AnyToolResponses ==
    { NetFail } \cup { Http(st, b) : st \in ToolStatuses, b \in ToolBodies }

\* {"error": why}
ErrorMapping(why) == Dict([error |-> Str(why)])

\* The payload of the POST.
ToolPayload(t) ==
    Dict([action |-> Str("short_term_predict"), kwargs |-> Dict([ticker |-> Str(Upper(t.str))])])

ToolRequest(t) == HttpPost(INVOKE_PATH, ToolPayload(t))

\* k in s for two strings, on the strings the model uses.
Substring(k, s) == s = k

\* key in data: a key of a dict, an element of a list, a substring of a str;
\* TypeError for a value that is not iterable.
In(key, data) ==
    CASE IsDict(data) -> Return(HasKey(data, key))
      [] IsList(data) -> Return(\E i \in DOMAIN data.list : data.list[i] = Str(key))
      [] IsStr(data) -> Return(Substring(key, data.str))
      [] OTHER -> Raise("TypeError")

\* data[key] for a str key: TypeError on a list and on a str.
Index(data, key) ==
    IF IsDict(data) THEN Return(data.dict[key]) ELSE Raise("TypeError")

\* if "result" in response_data: ... elif "output" in response_data: ... else: ...
ToolNormalize(data) ==
    LET r == In("result", data)
        o == In("output", data)
    IN  IF r.kind = "raise" THEN r
        ELSE IF r.value THEN Index(data, "result")
        ELSE IF o.kind = "raise" THEN o
        ELSE IF o.value THEN Index(data, "output")
        ELSE Return(data)

\* ToolAnswer without response.raise_for_status(): the body of every answer
\* is decoded and normalized.
ToolAnswerNoStatusCheck(r) ==
    IF r.kind = "netfail"
    THEN { Return(ErrorMapping("Connection failed")),
           Return(ErrorMapping("An unexpected error occurred")) }
    ELSE IF r.body.kind = "text"
    THEN { Return(ErrorMapping("An unexpected error occurred")),
           Return(ErrorMapping("Failed to decode JSON")) }
    ELSE { ToolNormalize(r.body.json) }

\* The try block for the answer r: the ways it can end. A network failure is
\* a ConnectionError or another RequestException (a timeout); the
\* JSONDecodeError of response.json() is caught by the RequestException
\* clause when the installed requests derives it from RequestException, and
\* by the json.JSONDecodeError clause otherwise.
ToolAnswer(r) ==
    IF r.kind = "netfail"
    THEN { Return(ErrorMapping("Connection failed")),
           Return(ErrorMapping("An unexpected error occurred")) }
    ELSE IF IsHttpError(r.status)
    THEN { Return(ErrorMapping("HTTP error occurred")) }
    ELSE IF r.body.kind = "text"
    THEN { Return(ErrorMapping("An unexpected error occurred")),
           Return(ErrorMapping("Failed to decode JSON")) }
    ELSE { ToolNormalize(r.body.json) }

ToolInit ==
    /\ ClientIdle
    /\ server = Idle
    /\ predict = Idle
    /\ calls = Idle
    /\ globals = Idle
    /\ forecaster = Idle
    /\ \E t \in ToolTickers, rem \in { "any", "repo" } :
         tool = [pc |-> "start", remote |-> rem, ticker |-> t, reqs |-> << >>,
                 resp |-> NoResp, ret |-> None, exc |-> ""]

\* if not ticker or not isinstance(ticker, str): return {"error": ...}
ToolReject ==
    /\ tool.pc = "start"
    /\ ~Truthy(tool.ticker) \/ ~IsStr(tool.ticker)
    /\ tool' = [tool EXCEPT !.pc = "done", !.ret = ErrorMapping("Invalid ticker provided")]
    /\ UNCHANGED << clientVars, server, predict, calls, globals, forecaster >>

\* requests.post(full_url, json=payload, timeout=15)
ToolSend ==
    /\ tool.pc = "start"
    /\ Truthy(tool.ticker) /\ IsStr(tool.ticker)
    /\ tool' = [tool EXCEPT !.pc = "wait", !.reqs = Append(@, ToolRequest(tool.ticker))]
    /\ UNCHANGED << clientVars, server, predict, calls, globals, forecaster >>

\* What the remote can answer to the POST.
ToolResponses ==
    IF tool.remote = "any"
    THEN AnyToolResponses
    ELSE { NetFail } \cup invoke(Json(tool.reqs[Len(tool.reqs)].json))

\* The POST ends; the rest of the try block and its except clauses.
ToolRecv ==
    /\ tool.pc = "wait"
    /\ \E r \in ToolResponses :
         \E o \in ToolAnswer(r) :
            IF o.kind = "raise"
            THEN tool' = [tool EXCEPT !.pc = "raised", !.resp = r, !.exc = o.exc]
            ELSE tool' = [tool EXCEPT !.pc = "done", !.resp = r, !.ret = o.value]
    /\ UNCHANGED << clientVars, server, predict, calls, globals, forecaster >>

ToolNext ==
    \/ ToolReject
    \/ ToolSend
    \/ ToolRecv

ToolSpec == ToolInit /\ [][ToolNext]_vars

----------------------------------------------------------------------------
(* StockForcasterAgent.py: the handlers _invoke and _jsonrpc_root, each     *)
(* given one request. server is [pc, path, body, resp, exc]: where the      *)
(* request is, the path it was POSTed to, its body, the response of the     *)
(* handler and the exception that left the handler.                         *)

\* The values of "action" in the bodies POSTed to /invoke; Missing: no such key.
ActionValues ==
    { Missing, None, Num(1), Str("short_term_predict"), Str("short_term_prediction"),
      Str("long_term_predict") }

\* The values of "kwargs".
KwargsValues ==
    { Missing, None, EmptyDict, Str("TNA"), List(<< Str("TNA") >>),
      Dict([ticker |-> Str("TNA")]),
      Dict([ticker |-> Num(5)]),
      Dict([ticker |-> Str("TNA"), days |-> Num(5)]),
      Dict([symbol |-> Str("TNA")]) }

\* Bodies that are not a JSON object: text that is not JSON, and JSON values
\* of the other types.
NonObjectBodies ==
    { Text("{"), Json(None), Json(Num(1)), Json(Str("short_term_predict")),
      Json(List(<< >>)), Json(List(<< Dict([action |-> Str("short_term_predict")]) >>)) }

InvokeBodies ==
    NonObjectBodies
    \cup { Json(MkDict([action |-> a, kwargs |-> k])) : a \in ActionValues, k \in KwargsValues }

\* The values of "method" in the bodies POSTed to /.
MethodValues ==
    { Missing, None, Num(1), Str("model"), Str("short_term_stock_agent"),
      Str("short_term_predict"), Str("predict") }

\* The values of "params".
ParamsValues ==
    { Missing, None, EmptyDict, Str("TNA"), List(<< Str("TNA") >>),
      Dict([ticker |-> Str("TNA")]),
      Dict([ticker |-> Str("")]),
      Dict([ticker |-> Num(5)]),
      Dict([tool_inputs |-> None]),
      Dict([tool_inputs |-> List(<< Str("TNA") >>)]),
      Dict([tool_inputs |-> Dict([short_term_predict |-> Dict([ticker |-> Str("TNA")])])]),
      Dict([tool_inputs |-> Dict([short_term_predict |-> EmptyDict]), ticker |-> Str("TNA")]),
      Dict([tool_inputs |-> Dict([short_term_predict |-> EmptyDict])]),
      Dict([tool_inputs |-> Dict([short_term_predict |-> Str("TNA")])]),
      Dict([tool_inputs |-> Dict([short_term_predict |-> None])]),
      Dict([tool_inputs |-> Dict([long_term_predict |-> Dict([ticker |-> Str("TNA")])])]) }

RootBodies ==
    NonObjectBodies
    \cup { Json(MkDict([jsonrpc |-> Str("2.0"), method |-> m, params |-> q, id |-> i])) :
             m \in MethodValues, q \in ParamsValues, i \in { Missing, Num(1) } }

ServerInit ==
    /\ ClientIdle
    /\ tool = Idle
    /\ predict = Idle
    /\ calls = Idle
    /\ globals = Idle
    /\ forecaster = Idle
    /\ server = [pc |-> "listening", path |-> "", body |-> Text(""), resp |-> NoResp,
                 exc |-> ""]

\* A POST to /invoke arrives.
RecvInvoke ==
    /\ server.pc = "listening"
    /\ \E b \in InvokeBodies :
         server' = [server EXCEPT !.pc = "handling", !.path = INVOKE_PATH, !.body = b]
    /\ UNCHANGED << clientVars, tool, predict, calls, globals, forecaster >>

\* A POST to / arrives.
RecvRoot ==
    /\ server.pc = "listening"
    /\ \E b \in RootBodies :
         server' = [server EXCEPT !.pc = "handling", !.path = ROOT_PATH, !.body = b]
    /\ UNCHANGED << clientVars, tool, predict, calls, globals, forecaster >>

\* The handler has ended with o.
Handled(o) ==
    IF o.kind = "raise"
    THEN [server EXCEPT !.pc = "raised", !.exc = o.exc]
    ELSE [server EXCEPT !.pc = "done", !.resp = o.value]

\* _invoke runs.
RunInvoke ==
    /\ server.pc = "handling"
    /\ server.path = INVOKE_PATH
    /\ \E o \in invoke_handler(server.body) : server' = Handled(o)
    /\ UNCHANGED << clientVars, tool, predict, calls, globals, forecaster >>

\* _jsonrpc_root runs.
RunRoot ==
    /\ server.pc = "handling"
    /\ server.path = ROOT_PATH
    /\ \E o \in jsonrpc_root_handler(server.body) : server' = Handled(o)
    /\ UNCHANGED << clientVars, tool, predict, calls, globals, forecaster >>

ServerNext ==
    \/ RecvInvoke
    \/ RecvRoot
    \/ RunInvoke
    \/ RunRoot

ServerSpec == ServerInit /\ [][ServerNext]_vars

----------------------------------------------------------------------------
(* StockForcasterAgent.py: short_term_predict. predict is [pc, ticker,      *)
(* days, pandas, today, series, ret, exc]: the position of the call, its    *)
(* arguments, whether pandas can be imported, the day it runs, what the     *)
(* predictor did, what the call returned and the exception that left it.    *)
(*                                                                          *)
(* A day is a number, 0 being Monday 2024-01-01; a Timestamp is a day and   *)
(* an hour of it.                                                           *)

\* date.weekday(): 0 is Monday, 5 and 6 are Saturday and Sunday.
Weekday(d) == d % 7

IsWeekend(d) == Weekday(d) >= 5

\* str(date), for three weeks from day 0.
Dates ==
    << "2024-01-01", "2024-01-02", "2024-01-03", "2024-01-04", "2024-01-05", "2024-01-06",
       "2024-01-07", "2024-01-08", "2024-01-09", "2024-01-10", "2024-01-11", "2024-01-12",
       "2024-01-13", "2024-01-14", "2024-01-15", "2024-01-16", "2024-01-17", "2024-01-18",
       "2024-01-19", "2024-01-20", "2024-01-21" >>

DateStr(d) == Dates[d + 1]

\* str(i) for an index i of enumerate.
IndexStr(i) == << "0", "1", "2", "3", "4", "5", "6", "7" >>[i + 1]

Timestamp(d, h) == [day |-> d, hour |-> h]

\* Timestamp.date(): the day, without the hour.
DateOf(ts) == ts.day

\* The elements of a sequence.
Range(q) == { q[i] : i \in DOMAIN q }

\* The sequences over S of length at most n.
SeqsUpTo(S, n) == UNION { [1..k -> S] : k \in 0..n }

\* The first business day on or after d.
RECURSIVE RollForward(_)
RollForward(d) == IF IsWeekend(d) THEN RollForward(d + 1) ELSE d

\* date_range at freq="D": n consecutive days from start.
CalendarDays(start, n) == [i \in 1..n |-> start + i - 1]

\* pd.date_range(start=start, periods=n, freq="B"): the first n business days
\* on or after start.
RECURSIVE BusinessDays(_, _)
BusinessDays(start, n) ==
    IF n <= 0
    THEN << >>
    ELSE << RollForward(start) >> \o BusinessDays(RollForward(start) + 1, n - 1)

\* bstart and idx2: n business days from the first one after today.
SynthesizedDays(today, n) == BusinessDays(BusinessDays(today + 1, 1)[1], n)

\* {k: v for k, v in zip(keys, vals)}: of two entries with the same key the
\* later one stays.
DictOfPairs(keys, vals) ==
    [k \in Range(keys) |->
        vals[CHOOSE i \in DOMAIN keys :
                /\ keys[i] = k
                /\ \A j \in DOMAIN keys : keys[j] = k => j <= i]]

\* {str(d.date()): float(v) for d, v in zip(days, vals)}: float raises on a
\* value that is not a number.
DateMapping(days, vals) ==
    IF \E i \in DOMAIN vals : vals[i].kind # "num"
    THEN Raise("TypeError")
    ELSE Return(Dict(DictOfPairs([i \in DOMAIN days |-> DateStr(days[i])], vals)))

\* {str(i): float(v) for i, v in enumerate(preds)}
IndexMapping(preds) ==
    Dict(DictOfPairs([i \in DOMAIN preds |-> IndexStr(i - 1)], preds))

\* pd.to_datetime(k) for the keys the model uses; Missing when it raises.
ToDatetime(k) ==
    CASE k = "2024-01-02" -> Timestamp(1, 0)
      [] k = "2024-01-02 10:00" -> Timestamp(1, 10)
      [] k = "2024-01-03" -> Timestamp(2, 0)
      [] k = "2024-01-06" -> Timestamp(5, 0)
      [] OTHER -> Missing

\* What the predictor can return: a Series with a DatetimeIndex or another
\* index, a dict, a plain iterable, or a value that is none of these.
PredictedValues == { Num(101), None }

IndexStamps == { Timestamp(d, h) : d \in { 1, 2, 5 }, h \in { 0, 10 } }

DictKeys == { "2024-01-02", "2024-01-02 10:00", "2024-01-03", "2024-01-06", "next" }

Lengths == 0..MaxValues

DatetimeSeries ==
    { [kind |-> "series", index |-> "datetime", stamps |-> st, values |-> vs] :
        <<st, vs>> \in UNION { [1..k -> IndexStamps] \X [1..k -> PredictedValues] :
                                k \in Lengths } }

RangeSeries ==
    { [kind |-> "series", index |-> "range", values |-> vs] :
        vs \in SeqsUpTo(PredictedValues, MaxValues) }

Mappings ==
    { [kind |-> "mapping", keys |-> ks, values |-> vs] :
        <<ks, vs>> \in UNION { { q \in [1..k -> DictKeys] :
                                   \A i, j \in 1..k : q[i] = q[j] => i = j }
                                \X [1..k -> PredictedValues] : k \in Lengths } }

Iterables ==
    { [kind |-> "iter", values |-> vs] : vs \in SeqsUpTo(PredictedValues, MaxValues) }

Scalars == { [kind |-> "scalar"] }

\* The ways the import and the call of predict_short_term_price can end. The
\* module of the predictor imports pandas, so without pandas its import raises.
PredictorOutcomes(pandas) ==
    IF pandas
    THEN { Raise("ImportError"), Raise("RuntimeError") }
         \cup { Return(x) :
                  x \in DatetimeSeries \cup RangeSeries \cup Mappings \cup Iterables
                        \cup Scalars }
    ELSE { Raise("ImportError") }

\* The inner try block, with pandas: the return it reaches, or the exception
\* raised in it.
Convert(series, today) ==
    CASE series.kind = "series" /\ series.index = "datetime" ->
            IF \E i \in DOMAIN series.stamps : Weekday(DateOf(series.stamps[i])) >= 5
            THEN DateMapping(SynthesizedDays(today, Len(series.values)), series.values)
            ELSE DateMapping([i \in DOMAIN series.stamps |-> DateOf(series.stamps[i])],
                             series.values)
      [] series.kind = "series" /\ series.index # "datetime" ->
            DateMapping(SynthesizedDays(today, Len(series.values)), series.values)
      [] series.kind = "mapping" ->
            LET parsed == [i \in DOMAIN series.keys |-> ToDatetime(series.keys[i])]
                parsed_ok == \A i \in DOMAIN parsed : parsed[i] # Missing
                has_weekend == \E i \in DOMAIN parsed :
                                  parsed[i] # Missing /\ Weekday(DateOf(parsed[i])) >= 5
            IN  IF parsed_ok /\ ~has_weekend
                THEN DateMapping([i \in DOMAIN parsed |-> DateOf(parsed[i])], series.values)
                ELSE DateMapping(SynthesizedDays(today, Len(series.values)), series.values)
      [] series.kind = "iter" ->
            DateMapping(SynthesizedDays(today, Len(series.values)), series.values)
      [] OTHER -> Raise("TypeError")

\* What the call returns once the predictor has returned series: the inner
\* except clause swallows what the conversion raises, and the function then
\* ends without a return statement.
Converted(series, pandas, today) ==
    IF ~pandas THEN None
    ELSE IF Convert(series, today).kind = "raise" THEN None
    ELSE Convert(series, today).value

\* The outer except clause: the random predictions preds under business days
\* from tomorrow, or under their indices without pandas.
Fallback(preds, pandas, today) ==
    IF pandas
    THEN DateMapping(BusinessDays(today + 1, Len(preds)), preds).value
    ELSE IndexMapping(preds)

\* round(base_price + random.uniform(-5, 5), 2)
RandomPrices == { Num(101), Num(102) }

PredictTickers == { Str("tna"), Str("TNA"), Num(5) }

PredictInit ==
    /\ ClientIdle
    /\ tool = Idle
    /\ server = Idle
    /\ calls = Idle
    /\ globals = Idle
    /\ forecaster = Idle
    /\ \E t \in PredictTickers, n \in 1..MaxValues, pd \in BOOLEAN, day \in 0..6 :
         predict = [pc |-> "start", ticker |-> t, days |-> n, pandas |-> pd, today |-> day,
                    series |-> None, ret |-> None, exc |-> ""]

\* ticker = ticker.upper().strip() on a ticker that is not a str.
TickerRaises ==
    /\ predict.pc = "start"
    /\ ~IsStr(predict.ticker)
    /\ predict' = [predict EXCEPT !.pc = "raised", !.exc = "AttributeError"]
    /\ UNCHANGED << clientVars, tool, server, calls, globals, forecaster >>

\* The import of the predictor and its call.
CallPredictor ==
    /\ predict.pc = "start"
    /\ IsStr(predict.ticker)
    /\ \E o \in PredictorOutcomes(predict.pandas) :
         predict' = [predict EXCEPT !.pc = "predicted", !.ticker = Str(Upper(@.str)),
                                    !.series = o]
    /\ UNCHANGED << clientVars, tool, server, calls, globals, forecaster >>

\* The predictor returned: the inner try block.
ConvertSeries ==
    /\ predict.pc = "predicted"
    /\ predict.series.kind = "return"
    /\ predict' = [predict EXCEPT !.pc = "done",
                     !.ret = Converted(predict.series.value, predict.pandas, predict.today)]
    /\ UNCHANGED << clientVars, tool, server, calls, globals, forecaster >>

\* The predictor raised: the outer except clause.
RandomFallback ==
    /\ predict.pc = "predicted"
    /\ predict.series.kind = "raise"
    /\ \E preds \in [1..predict.days -> RandomPrices] :
         predict' = [predict EXCEPT !.pc = "done",
                       !.ret = Fallback(preds, predict.pandas, predict.today)]
    /\ UNCHANGED << clientVars, tool, server, calls, globals, forecaster >>

PredictNext ==
    \/ TickerRaises
    \/ CallPredictor
    \/ ConvertSeries
    \/ RandomFallback

PredictSpec == PredictInit /\ [][PredictNext]_vars

----------------------------------------------------------------------------
(* Two calls of get_stock_prediction running concurrently. calls is        *)
(* [frames, answers]: frames[i] holds the locals of the frame numbered i,   *)
(* answers[i] the answers delivered to call i so far, in order. globals     *)
(* holds the module-level names of A2AStockForcasterClient.py.              *)

CallIds == { 1, 2 }

\* AGENT_URL, INVOKE_PATH and AGENT_CARD_PATH as the module binds them.
ModuleGlobals ==
    [AGENT_URL |-> "http://127.0.0.1:8002", INVOKE_PATH |-> INVOKE_PATH,
     AGENT_CARD_PATH |-> AGENT_CARD_PATH]

\* The locals of a call that has just been entered with ticker t.
StartFrame(t) ==
    [pc |-> "start", ticker |-> t, reqs |-> << >>, cardResp |-> NoResp, agent_card |-> None,
     candidates |-> << >>, tried |-> 0, rpcResp |-> NoResp, result |-> None,
     invokeResp |-> NoResp, outcome |-> Pending, exc |-> ""]

\* The call waits for the answer to a request.
Waiting(f) == f.pc \in { "card_wait", "rpc_wait", "fallback_wait", "direct_wait" }

\* Every call binding its names in the frame of call 1, as names declared
\* global would be.
FrameShared(i) == 1

\* The frame in which call i binds its names: its own, as every name the
\* function assigns (payload, base, agent_card, candidates, seen, result) is
\* local to the call.
Frame(i) == i

\* The frames one step of get_stock_prediction can lead to from f, with the
\* module-level names g; a is the answer the step receives when f waits.
Steps(f, g, a) ==
    CASE f.pc = "start" ->
            { [f EXCEPT !.pc = "card_wait", !.reqs = Append(@, HttpGet(g.AGENT_CARD_PATH))] }
      [] f.pc = "card_wait" ->
            { [f EXCEPT !.pc = "select", !.cardResp = a, !.agent_card = ParseCard(a)] }
      [] f.pc = "select" ->
            { IF PrefersJsonRpc(f.agent_card).kind = "raise"
              THEN [f EXCEPT !.pc = "raised", !.exc = PrefersJsonRpc(f.agent_card).exc]
              ELSE IF ~PrefersJsonRpc(f.agent_card).value
              THEN [f EXCEPT !.pc = "direct_send"]
              ELSE IF BuildCandidates(f.agent_card).kind = "raise"
              THEN [f EXCEPT !.pc = "raised", !.exc = BuildCandidates(f.agent_card).exc]
              ELSE [f EXCEPT !.pc = "rpc_send",
                             !.candidates = BuildCandidates(f.agent_card).value] }
      [] f.pc = "rpc_send" ->
            { [f EXCEPT !.pc = "rpc_wait", !.tried = @ + 1, !.rpcResp = NoResp,
                        !.reqs = Append(@, RpcRequest(NextCandidate(f.tried, f.candidates),
                                                      f.ticker))] }
      [] f.pc = "rpc_wait" ->
            { IF o.kind = "raise"
              THEN [f EXCEPT !.pc = "raised", !.rpcResp = a, !.exc = o.exc]
              ELSE IF ProbeContinues(o.value)
              THEN [f EXCEPT !.pc = AfterRejected(f.tried, f.candidates), !.rpcResp = a]
              ELSE [f EXCEPT !.pc = "report", !.rpcResp = a, !.result = o.value]
              : o \in call_jsonrpc(a) }
      [] f.pc = "fallback_send" ->
            { [f EXCEPT !.pc = "fallback_wait", !.rpcResp = NoResp,
                        !.reqs = Append(@, HttpPost(g.INVOKE_PATH, InvokePayload(f.ticker)))] }
      [] f.pc = "direct_send" ->
            { [f EXCEPT !.pc = "direct_wait",
                        !.reqs = Append(@, HttpPost(g.INVOKE_PATH, InvokePayload(f.ticker)))] }
      [] f.pc \in { "fallback_wait", "direct_wait" } ->
            { [f EXCEPT !.pc = "report", !.invokeResp = a, !.result = InvokeResult(a)] }
      [] f.pc = "report" ->
            { [f EXCEPT !.pc = "done", !.outcome = Report(f.result)] }
      [] OTHER -> { }

\* What the remote can answer to the request a concurrent call waits on.
ConcCardResponses ==
    { NetFail,
      Http(200, Json(CardOf(Str("HTTP"), Str("x"), Missing))),
      Http(200, Json(CardOf(Str("JSONRPC"), Missing, Missing))),
      Http(200, Json(CardOf(Str("JSONRPC"), Str("x"), Missing))) }

ConcRpcResponses ==
    { NetFail,
      Http(404, RpcErrorBody(-32601, "Method not found")),
      Http(200, RpcResultBody(Forecast)) }

ConcInvokeResponses ==
    { NetFail,
      Http(200, Json(Dict([ok |-> Bool(TRUE), result |-> Forecast]))) }

AnswersTo(f) ==
    CASE f.pc = "card_wait" -> ConcCardResponses
      [] f.pc = "rpc_wait" -> ConcRpcResponses
      [] OTHER -> ConcInvokeResponses

\* The argument of call i.
TickerOf(i) == IF i = 1 THEN Str("TNA") ELSE Str("MSFT")

ConcInit ==
    /\ ClientIdle
    /\ tool = Idle
    /\ server = Idle
    /\ predict = Idle
    /\ globals = ModuleGlobals
    /\ forecaster = Idle
    /\ calls = [frames |-> [i \in CallIds |-> StartFrame(TickerOf(i))],
                answers |-> [i \in CallIds |-> << >>]]

\* Call i takes a step that waits for nothing.
CallAdvances(i) ==
    /\ ~Waiting(calls.frames[Frame(i)])
    /\ \E f \in Steps(calls.frames[Frame(i)], globals, NoResp) :
         calls' = [calls EXCEPT !.frames[Frame(i)] = f]
    /\ UNCHANGED << clientVars, tool, server, predict, globals, forecaster >>

\* The request call i waits on is answered.
CallReceives(i) ==
    /\ Waiting(calls.frames[Frame(i)])
    /\ \E a \in AnswersTo(calls.frames[Frame(i)]) :
         \E f \in Steps(calls.frames[Frame(i)], globals, a) :
            calls' = [calls EXCEPT !.frames[Frame(i)] = f,
                                   !.answers[i] = Append(@, a)]
    /\ UNCHANGED << clientVars, tool, server, predict, globals, forecaster >>

ConcNext ==
    \/ \E i \in CallIds : CallAdvances(i)
    \/ \E i \in CallIds : CallReceives(i)

ConcSpec == ConcInit /\ [][ConcNext]_vars

----------------------------------------------------------------------------
(* ShortTerm_Prediction_Agent.py: predict_short_term_price. forecaster is   *)
(* [pc, forecast_days, yf, statsmodels, data, close, arima, ret, exc]: the  *)
(* position of the call, its argument, whether yfinance and statsmodels     *)
(* were imported, what yf.download returned, the Close column without its   *)
(* missing values, how the ARIMA fit ended, the Series returned and the     *)
(* exception that left the call.                                            *)
(*                                                                          *)
(* A column is a sequence of [day, value]; a price is a whole number, a     *)
(* missing value is NaN, and the arithmetic of the forecast is kept as      *)
(* terms.                                                                   *)

NaN == [kind |-> "nan"]

Unbound == [kind |-> "unbound"]

\* returns.tail(30)
ReturnWindow == 30

\* pd.date_range(start=start, periods=n, freq='D'): n consecutive days.
DailyRange(start, n) == [i \in 1..n |-> start + i - 1]

Entry(d, v) == [day |-> d, value |-> v]

\* Series.dropna(): the entries whose value is not missing.
Dropna(col) == SelectSeq(col, LAMBDA e : e.value # NaN)

\* Series.pct_change().dropna(): the change of each entry against the one
\* before it, as a fraction.
Returns(close) ==
    [i \in 1..(Len(close) - 1) |->
        << close[i + 1].value.num - close[i].value.num, close[i].value.num >>]

\* Series.tail(k): the last k entries.
LastEntries(q, k) ==
    IF Len(q) <= k THEN q ELSE SubSeq(q, Len(q) - k + 1, Len(q))

\* float(recent.mean())
MeanOf(q) == [kind |-> "mean", of |-> q]

\* last_price * ((1 + avg_daily_return) ** k)
Compound(last_price, rate, k) ==
    [kind |-> "compound", base |-> last_price, rate |-> rate, periods |-> k]

\* pd.Series(vals, index=days): a Series with a DatetimeIndex.
DatedSeries(days, vals) ==
    [kind |-> "series", index |-> "datetime",
     stamps |-> [i \in DOMAIN days |-> Timestamp(days[i], 0)], values |-> vals]

\* _naive_return_forecast(close, n)
NaiveForecast(close, n) ==
    LET returns == Returns(close)
        last_price == close[Len(close)].value
        preds == IF returns = << >>
                 THEN [i \in 1..n |-> last_price]
                 ELSE [i \in 1..n |->
                          Compound(last_price, MeanOf(LastEntries(returns, ReturnWindow)), i)]
    IN  DatedSeries(DailyRange(close[Len(close)].day + 1, n), preds)

\* What yf.download can return: None, a frame without a Close column, or a
\* frame whose Close column holds up to MaxClose trading days from Monday or
\* Thursday, each with a price or a missing value.
Frames ==
    { [kind |-> "frame", columns |-> { "Open" }, close |-> << >>] }
    \cup { [kind |-> "frame", columns |-> { "Open", "Close" },
            close |-> [i \in 1..k |-> Entry(BusinessDays(d0, k)[i], vs[i])]] :
              <<d0, k, vs>> \in UNION { { 0, 3 } \X { k } \X [1..k -> { Num(100), Num(110), NaN }] :
                                         k \in 0..MaxClose } }

\* The ways yf.download(...) at line 54 can end: without yfinance yf is None
\* and the attribute lookup raises.
DownloadOutcomes(yf) ==
    IF ~yf
    THEN { Raise("AttributeError") }
    ELSE { Raise("ConnectionError"), Return(None) } \cup { Return(fr) : fr \in Frames }

\* The value of step i of the forecast of the fitted model.
ArimaValue(i) == [kind |-> "arima", step |-> i]

\* The ways ARIMA(close).fit().forecast(steps=n) can end: it raises, or gives
\* n values under dates that continue the index of close, by calendar days
\* or by business days, or under an index that holds no dates.
ArimaOutcomes(close, n) ==
    { Raise("LinAlgError"),
      Return(DatedSeries(DailyRange(close[Len(close)].day + 1, n), [i \in 1..n |-> ArimaValue(i)])),
      Return(DatedSeries(BusinessDays(close[Len(close)].day + 1, n),
                         [i \in 1..n |-> ArimaValue(i)])),
      Return([kind |-> "series", index |-> "range", values |-> [i \in 1..n |-> ArimaValue(i)]]) }

\* The try block of the ARIMA branch without its except clause.
AfterArimaPropagates(o, close, n) ==
    IF o.kind = "raise"
    THEN o
    ELSE IF o.value.index = "datetime"
    THEN Return(o.value)
    ELSE Return(DatedSeries(DailyRange(close[Len(close)].day + 1, n), o.value.values))

\* The try block of the ARIMA branch and its except clause, the fit having
\* ended with o: a forecast with a DatetimeIndex is returned as it is, another
\* one under a daily index from the day after the last observation, and a
\* failure gives the naive forecast.
AfterArima(o, close, n) ==
    IF o.kind = "raise"
    THEN Return(NaiveForecast(close, n))
    ELSE IF o.value.index = "datetime"
    THEN Return(o.value)
    ELSE Return(DatedSeries(DailyRange(close[Len(close)].day + 1, n), o.value.values))

ForecastInit ==
    /\ ClientIdle
    /\ tool = Idle
    /\ server = Idle
    /\ predict = Idle
    /\ calls = Idle
    /\ globals = Idle
    /\ \E n \in 0..MaxDays, yf \in BOOLEAN, sm \in BOOLEAN :
         forecaster = [pc |-> "start", forecast_days |-> n, yf |-> yf, statsmodels |-> sm,
                       data |-> Unbound, close |-> << >>, arima |-> Unbound,
                       ret |-> None, exc |-> ""]

\* data = yf.download(ticker, period="6mo", interval="1d")
Download ==
    /\ forecaster.pc = "start"
    /\ \E o \in DownloadOutcomes(forecaster.yf) :
         IF o.kind = "raise"
         THEN forecaster' = [forecaster EXCEPT !.pc = "raised", !.exc = o.exc]
         ELSE forecaster' = [forecaster EXCEPT !.pc = "downloaded", !.data = o.value]
    /\ UNCHANGED << clientVars, tool, server, predict, calls, globals >>

\* The two checks that raise RuntimeError, and close = data["Close"].dropna().
CheckData ==
    /\ forecaster.pc = "downloaded"
    /\ IF forecaster.data = None \/ "Close" \notin forecaster.data.columns
       THEN forecaster' = [forecaster EXCEPT !.pc = "raised", !.exc = "RuntimeError"]
       ELSE IF Dropna(forecaster.data.close) = << >>
       THEN forecaster' = [forecaster EXCEPT !.pc = "raised", !.exc = "RuntimeError"]
       ELSE forecaster' = [forecaster EXCEPT !.pc = "forecasting",
                                             !.close = Dropna(forecaster.data.close)]
    /\ UNCHANGED << clientVars, tool, server, predict, calls, globals >>

\* if _HAS_STATSMODELS: the ARIMA branch.
FitArima ==
    /\ forecaster.pc = "forecasting"
    /\ forecaster.statsmodels
    /\ \E o \in ArimaOutcomes(forecaster.close, forecaster.forecast_days) :
         LET end == AfterArima(o, forecaster.close, forecaster.forecast_days)
         IN  IF end.kind = "raise"
             THEN forecaster' = [forecaster EXCEPT !.pc = "raised", !.arima = o,
                                                   !.exc = end.exc]
             ELSE forecaster' = [forecaster EXCEPT !.pc = "done", !.arima = o,
                                                   !.ret = end.value]
    /\ UNCHANGED << clientVars, tool, server, predict, calls, globals >>

\* else: the naive forecast, statsmodels being absent.
NaiveOnly ==
    /\ forecaster.pc = "forecasting"
    /\ ~forecaster.statsmodels
    /\ forecaster' = [forecaster EXCEPT !.pc = "done",
                         !.ret = NaiveForecast(forecaster.close, forecaster.forecast_days)]
    /\ UNCHANGED << clientVars, tool, server, predict, calls, globals >>

ForecastNext ==
    \/ Download
    \/ CheckData
    \/ FitArima
    \/ NaiveOnly

ForecastSpec == ForecastInit /\ [][ForecastNext]_vars

----------------------------------------------------------------------------
(* Vocabulary of the properties. *)

IsRpcPost(q) == q.verb = "POST" /\ q.path = ROOT_PATH
IsInvokePost(q) == q.verb = "POST" /\ q.path = INVOKE_PATH

RpcPosts == { i \in DOMAIN reqs : IsRpcPost(reqs[i]) }
InvokePosts == { i \in DOMAIN reqs : IsInvokePost(reqs[i]) }

\* The transport has been selected.
Selected == pc \notin { "start", "card_wait", "select" }

\* The descriptor is absent, or has no preferredTransport, or one that is not
\* a spelling of JSONRPC (null and non-strings included).
NoJsonRpcPreference(card) ==
    \/ IsNone(card)
    \/ ~HasKey(card, "preferredTransport")
    \/ ~IsStr(card.dict["preferredTransport"])
    \/ card.dict["preferredTransport"].str \notin { "JSONRPC", "jsonrpc", "JsonRpc" }

\* r carries a JSON object.
CarriesObject(r) == r.kind = "http" /\ r.body.kind = "json" /\ IsDict(r.body.json)

\* r carries a JSON-RPC error object with a code.
CarriesRpcError(r) ==
    /\ CarriesObject(r)
    /\ HasKey(r.body.json, "error")
    /\ IsDict(r.body.json.dict["error"])
    /\ HasKey(r.body.json.dict["error"], "code")

RpcErrorCode(r) == r.body.json.dict["error"].dict["code"].num

\* r is a well-formed JSON-RPC error with code -32601.
WellFormedNotFound(r) == CarriesRpcError(r) /\ RpcErrorCode(r) = -32601

\* r is a JSON-RPC success.
RpcSuccess(r) == CarriesObject(r) /\ HasKey(r.body.json, "result")

\* r is a JSON-RPC error with a code other than -32601.
RpcOtherError(r) == CarriesRpcError(r) /\ RpcErrorCode(r) # -32601

\* The next candidate, as a request.
NextRpcRequest == RpcRequest(candidates[tried + 1], ticker)

----------------------------------------------------------------------------
(* C1 *)

\* C1: whenever the descriptor is absent, or its preferredTransport is missing
\* or anything but a spelling of JSONRPC (null or a non-string included), the
\* client issues no JSON-RPC POST, and its first and only POST is the one to
\* /invoke. The code breaks this: a null or non-string preferredTransport makes
\* .upper() raise, and no POST is issued at all.
C1_NoJsonRpcGoesToInvoke ==
    (Selected /\ NoJsonRpcPreference(agent_card)) =>
        /\ RpcPosts = { }
        /\ pc # "raised"
        /\ Len(reqs) >= 2 => reqs[2] = InvokeRequest(ticker)
        /\ pc = "done" => reqs = << CardRequest, InvokeRequest(ticker) >>

----------------------------------------------------------------------------
(* C2 *)

\* C2: after a candidate that is not the last was answered with a well-formed
\* JSON-RPC error of code -32601, the client is about to probe again and the
\* next request it issues is the JSON-RPC POST of the next candidate; /invoke
\* is never POSTed while a candidate is untried.
C2_NotFoundTriesNextCandidate ==
    /\ []((WellFormedNotFound(rpcResp) /\ tried < Len(candidates)) => pc = "rpc_send")
    /\ [][(WellFormedNotFound(rpcResp) /\ tried < Len(candidates) /\ reqs' # reqs)
             => reqs' = Append(reqs, NextRpcRequest)]_vars
    /\ [](InvokePosts # { } => tried = Len(candidates))

\* The first of three candidates has just been answered -32601 with status 200.
C2_Witness ==
    /\ pc = "rpc_send"
    /\ tried = 1
    /\ Len(candidates) = 3
    /\ WellFormedNotFound(rpcResp)
    /\ rpcResp.status = 200

----------------------------------------------------------------------------
(* C3 *)

\* C3: once a candidate was answered with a JSON-RPC success, or with a
\* JSON-RPC error of a code other than -32601, under whatever HTTP status, that
\* answer is the result and the client issues no further request. The code
\* breaks this: raise_for_status discards every answer of status 4xx or 5xx.
C3_OtherAnswerIsFinal ==
    (RpcSuccess(rpcResp) \/ RpcOtherError(rpcResp)) =>
        /\ pc \in { "report", "done" }
        /\ result = rpcResp.body.json
        /\ InvokePosts = { }

----------------------------------------------------------------------------
(* C4 *)

\* C4: against _jsonrpc_root, an application error (-32602 or -32000) answered
\* to a recognised method ends the probing: no further candidate, no /invoke,
\* and the error payload is the final result. The code breaks this: the
\* handler sends these errors with status 400 and 500, which call_jsonrpc
\* turns into None.
C4_ApplicationErrorNotRetried ==
    (remote = "repo" /\ CarriesRpcError(rpcResp) /\ RpcErrorCode(rpcResp) \in { -32602, -32000 }) =>
        /\ pc \in { "report", "done" }
        /\ result = rpcResp.body.json
        /\ InvokePosts = { }
        /\ pc = "done" => outcome = Printed(rpcResp.body.json)

----------------------------------------------------------------------------
(* C5 *)

\* The sources of the candidate list, in the order the claim gives them:
\* "model", the descriptor's name, then for each skill its name and its id, or
\* the bare string.
RECURSIVE SkillSources(_, _)
SkillSources(skills, n) ==
    IF n = 0
    THEN << >>
    ELSE SkillSources(skills, n - 1)
         \o (IF skills[n].kind = "str"
             THEN << skills[n] >>
             ELSE << Get(skills[n], "name"), Get(skills[n], "id") >>)

ClaimedSources(card) ==
    LET skills == IF HasKey(card, "skills") /\ IsList(card.dict["skills"])
                  THEN card.dict["skills"].list
                  ELSE << >>
    IN  << Str("model"), Get(card, "name") >> \o SkillSources(skills, Len(skills))

\* src without its empty or missing entries and without every later repeat.
FirstSeenNonEmpty(src) ==
    LET kept == { i \in DOMAIN src :
                    /\ src[i] \notin { None, Str("") }
                    /\ \A j \in 1..(i - 1) : src[j] # src[i] }
        nth(k) == CHOOSE i \in kept : Cardinality({ j \in kept : j < i }) = k - 1
    IN  [k \in 1..Cardinality(kept) |-> src[nth(k)]]

\* The candidate list has been built.
CandidatesBuilt ==
    pc \in { "rpc_send", "rpc_wait", "fallback_send", "fallback_wait" } \/ tried > 0

\* C5: the candidate list is "model", the descriptor's name and the skills'
\* names and ids in order, without empty or missing entries and without later
\* repeats: no duplicates, no empty entry, first-seen order, "model" first.
C5_CandidateList ==
    CandidatesBuilt =>
        /\ candidates = FirstSeenNonEmpty(ClaimedSources(agent_card))
        /\ \A i, j \in DOMAIN candidates : candidates[i] = candidates[j] => i = j
        /\ \A i \in DOMAIN candidates : candidates[i] \notin { None, Str("") }
        /\ Len(candidates) >= 1
        /\ candidates[1] = Str("model")

\* A descriptor whose sources hold repeats and empty entries gave three candidates.
C5_Witness ==
    /\ CandidatesBuilt
    /\ Len(candidates) = 3
    /\ Len(ClaimedSources(agent_card)) = 6
    /\ candidates[2] = Str("short_term_predict")

----------------------------------------------------------------------------
(* C6 *)

\* The agent-card GET ended in a network failure, a status other than 200, or
\* a 200 whose body is not a JSON descriptor.
CardUnusable(r) ==
    \/ r.kind = "netfail"
    \/ r.kind = "http" /\ r.status # 200
    \/ r.kind = "http" /\ r.body.kind = "text"
    \/ r.kind = "http" /\ r.body.kind = "json" /\ ~IsDict(r.body.json)

\* /invoke answered successfully with an object holding "result".
InvokeAnswersResult(r) ==
    CarriesObject(r) /\ r.status \in 200..299 /\ HasKey(r.body.json, "result")

\* C6: when the agent-card GET fails, is not a 200 or cannot be decoded as a
\* descriptor, the descriptor is absent, nothing is raised, the only POST is
\* the one to /invoke, and when /invoke answers {"result": X} the outcome is X.
C6_UnusableCardGoesToInvoke ==
    CardUnusable(cardResp) =>
        /\ IsNone(agent_card)
        /\ pc \in { "select", "direct_send", "direct_wait", "report", "done" }
        /\ RpcPosts = { }
        /\ pc \in { "direct_wait", "report", "done" }
             => reqs = << CardRequest, InvokeRequest(ticker) >>
        /\ (pc = "done" /\ InvokeAnswersResult(invokeResp))
             => outcome = Printed(invokeResp.body.json.dict["result"])

\* The GET failed on the network, /invoke answered a result and it was reported.
C6_Witness ==
    /\ pc = "done"
    /\ cardResp = NetFail
    /\ InvokeAnswersResult(invokeResp)
    /\ outcome = Printed(Forecast)

\* The same after a 500 that carried a descriptor asking for JSON-RPC.
C6_WitnessStatus ==
    /\ pc = "done"
    /\ cardResp.kind = "http"
    /\ cardResp.status = 500
    /\ outcome = Printed(Forecast)

----------------------------------------------------------------------------
(* C7 *)

\* C7: no exception leaves get_stock_prediction, whatever the agent card and
\* the answers are. The code breaks this: a preferredTransport that is null or
\* not a string, and skills that cannot be iterated, raise outside every try.
C7_NeverRaises == pc # "raised"

----------------------------------------------------------------------------
(* C8 *)

\* C8: after the POST of a candidate failed on the network, the call goes on:
\* it is about to probe the next candidate, or to POST /invoke when that was
\* the last one, and that is the next request it issues.
C8_NetworkFailureTriesNext ==
    /\ [](rpcResp = NetFail =>
            /\ exc = ""
            /\ tried < Len(candidates) => pc = "rpc_send"
            /\ tried = Len(candidates) => pc = "fallback_send")
    /\ [][(rpcResp = NetFail /\ reqs' # reqs) =>
            reqs' = Append(reqs, IF tried < Len(candidates)
                                 THEN NextRpcRequest
                                 ELSE InvokeRequest(ticker))]_vars

\* The POST of the last of three candidates has just failed on the network.
C8_Witness ==
    /\ rpcResp = NetFail
    /\ tried = 3
    /\ Len(candidates) = 3
    /\ pc = "fallback_send"

\* The POST of the first of three candidates has just failed on the network.
C8_WitnessNext ==
    /\ rpcResp = NetFail
    /\ tried = 1
    /\ Len(candidates) = 3
    /\ pc = "rpc_send"

----------------------------------------------------------------------------
(* C9 *)

\* The outcome the /invoke answer r stands for: nothing usable on a network
\* failure, on a 4xx or 5xx status and on a JSON null; the text of a body
\* that is not JSON; otherwise the value under "result", else under "output",
\* else the whole value.
OutcomeOfInvoke(r) ==
    IF r.kind = "netfail" THEN Unavailable
    ELSE IF r.status \in 400..599 THEN Unavailable
    ELSE IF r.body.kind = "text" THEN Printed(Str(r.body.text))
    ELSE IF r.body.json = None THEN Unavailable
    ELSE IF CarriesObject(r) /\ HasKey(r.body.json, "result")
         THEN Printed(r.body.json.dict["result"])
    ELSE IF CarriesObject(r) /\ HasKey(r.body.json, "output")
         THEN Printed(r.body.json.dict["output"])
    ELSE Printed(r.body.json)

\* The last candidate has just been answered, nothing was accepted and
\* nothing was raised.
ProbingExhausted ==
    /\ CandidatesBuilt
    /\ tried = Len(candidates)
    /\ rpcResp # NoResp
    /\ result = None
    /\ exc = ""

\* C9: when every candidate was probed and none accepted, the client POSTs
\* /invoke, exactly once, and the outcome is the one that answer stands for.
C9_ExhaustedFallsBack ==
    /\ [](ProbingExhausted => pc = "fallback_send")
    /\ [][(ProbingExhausted /\ reqs' # reqs) => reqs' = Append(reqs, InvokeRequest(ticker))]_vars
    /\ [](Cardinality(InvokePosts) <= 1)
    /\ []((CandidatesBuilt /\ pc = "done" /\ InvokePosts # { })
            => outcome = OutcomeOfInvoke(invokeResp))

\* Three candidates were probed, /invoke answered a forecast and it was reported.
C9_Witness ==
    /\ pc = "done"
    /\ tried = 3
    /\ Cardinality(RpcPosts) = 3
    /\ Cardinality(InvokePosts) = 1
    /\ outcome = Printed(Forecast)

----------------------------------------------------------------------------
(* C10 *)

\* C10: the requests are issued in a fixed order, one at a time: the GET of
\* the agent card first and only once, then the JSON-RPC POSTs in the order of
\* the candidate list, then, if at all, the POST to /invoke, after which
\* nothing is issued.
C10_RequestOrder ==
    /\ Len(reqs) >= 1 => reqs[1] = CardRequest
    /\ \A i \in 2..Len(reqs) : reqs[i].verb = "POST"
    /\ \A i \in RpcPosts : i - 1 <= Len(candidates)
                           /\ reqs[i] = RpcRequest(candidates[i - 1], ticker)
    /\ \A i \in InvokePosts : i = Len(reqs) /\ reqs[i] = InvokeRequest(ticker)
    /\ \A i \in 2..Len(reqs) : i \in RpcPosts \cup InvokePosts
    /\ Cardinality(inflight) <= 1
    /\ inflight # { } => (Len(reqs) >= 1 /\ inflight = { reqs[Len(reqs)] })
    /\ pc \in { "card_wait", "rpc_wait", "fallback_wait", "direct_wait" } <=> inflight # { }

\* A run of five requests: the GET, three JSON-RPC POSTs and the POST to /invoke.
C10_Witness ==
    /\ pc = "done"
    /\ Len(reqs) = 5
    /\ Cardinality(RpcPosts) = 3
    /\ IsInvokePost(reqs[5])

----------------------------------------------------------------------------
(* C11 *)

\* The longest candidate list a card with MaxSkills skills gives: "model", the
\* name of the agent, and a name and an id per skill.
MaxCandidates == 2 + 2 * MaxSkills

\* How far the call has come: every step of the call raises it, and it never
\* exceeds LastProgress.
Progress ==
    CASE pc = "start" -> 0
      [] pc = "card_wait" -> 1
      [] pc = "select" -> 2
      [] pc = "direct_send" -> 3
      [] pc = "direct_wait" -> 4
      [] pc = "rpc_send" -> 3 + 2 * tried
      [] pc = "rpc_wait" -> 2 + 2 * tried
      [] pc = "fallback_send" -> 3 + 2 * Len(candidates)
      [] pc = "fallback_wait" -> 4 + 2 * Len(candidates)
      [] pc = "report" -> 5 + 2 * Len(candidates)
      [] OTHER -> 6 + 2 * Len(candidates)

LastProgress == 6 + 2 * MaxCandidates

\* The guards of the actions: the call is at a position it can leave. Only
\* the for loop has a guard besides its position.
CanStep ==
    \/ pc \in { "start", "card_wait", "select", "rpc_wait", "fallback_send",
                "fallback_wait", "direct_send", "direct_wait", "report" }
    \/ pc = "rpc_send" /\ tried < Len(candidates)

\* CanStep is the enabling condition of Next.
CanStepIsEnabled == CanStep <=> ENABLED Next

\* C11: the call always ends, whatever the answers are: a call that has not
\* ended can take a step, every step brings it nearer to its end, and it issues
\* at most one GET, at most one JSON-RPC POST per distinct candidate and at most
\* one POST to /invoke, so at most 2 + Len(candidates) requests and none twice.
C11_TerminatesWithoutRetry ==
    /\ [](Ended \/ CanStep)
    /\ [][Progress' > Progress]_vars
    /\ [](Progress <= LastProgress)
    /\ [](Cardinality({ i \in DOMAIN reqs : reqs[i].verb = "GET" }) <= 1)
    /\ [](Cardinality(InvokePosts) <= 1)
    /\ [](\A i, j \in RpcPosts : reqs[i] = reqs[j] => i = j)
    /\ [](Cardinality(RpcPosts) <= Len(candidates))
    /\ [](Len(reqs) <= 2 + Len(candidates))
    /\ [](\A i, j \in DOMAIN reqs : reqs[i] = reqs[j] => i = j)

\* The longest run: the GET, a POST for each of three candidates, the POST to
\* /invoke, and the call has returned.
C11_Witness ==
    /\ pc = "done"
    /\ Len(candidates) = 3
    /\ Len(reqs) = 2 + Len(candidates)

----------------------------------------------------------------------------
(* C12 *)

\* A JSON-RPC answer was accepted: it is the last answer of the call.
CandidateAccepted == pc = "done" /\ rpcResp # NoResp

\* The POST to /invoke was answered by a network failure or a status that is
\* not 2xx.
InvokeFailed == invokeResp.kind = "netfail"
                \/ (invokeResp.kind = "http" /\ invokeResp.status \notin 200..299)

\* The POST to /invoke gave no result: a network failure, a 4xx or 5xx status,
\* or a JSON body that is null.
InvokeGaveNothing ==
    \/ invokeResp.kind = "netfail"
    \/ invokeResp.kind = "http" /\ IsHttpError(invokeResp.status)
    \/ invokeResp.kind = "http" /\ invokeResp.body = Json(None)

C12_WitnessAccepted ==
    /\ CandidateAccepted
    /\ outcome = Printed(Forecast)

----------------------------------------------------------------------------
(* C13 *)

\* /invoke answered with status 404 or another status that is not 2xx.
InvokeNot2xx == invokeResp.kind = "http" /\ invokeResp.status \notin 200..299

\* /invoke answered with status 404 or another 4xx or 5xx status.
InvokeHttpError == invokeResp.kind = "http" /\ IsHttpError(invokeResp.status)

\* C13 as stated: after a status that is not 2xx on /invoke the result is
\* absent, the outcome is Unavailable and nothing is raised.
C13_Not2xxIsUnavailable ==
    InvokeNot2xx => /\ pc \in { "report", "done" }
                    /\ result = None
                    /\ exc = ""
                    /\ pc = "done" => outcome = Unavailable

\* C13: after a 404 or any other 4xx or 5xx status on /invoke, on the direct
\* path and on the fallback path alike, the result is absent, the call
\* returns with the outcome Unavailable and nothing is raised.
C13_HttpErrorIsUnavailable ==
    InvokeHttpError => /\ pc \in { "report", "done" }
                       /\ result = None
                       /\ exc = ""
                       /\ pc = "done" => outcome = Unavailable

\* 404 on the fallback path, reported as Unavailable.
C13_Witness ==
    /\ pc = "done"
    /\ RpcPosts # { }
    /\ invokeResp.kind = "http"
    /\ invokeResp.status = 404
    /\ outcome = Unavailable

\* Status 500 on the direct path, reported as Unavailable.
C13_WitnessDirect ==
    /\ pc = "done"
    /\ RpcPosts = { }
    /\ invokeResp.kind = "http"
    /\ invokeResp.status = 500
    /\ outcome = Unavailable

----------------------------------------------------------------------------
(* C14 *)

\* The outcome the raw result raw stands for: the value under "result" of a
\* mapping that has it, else the value under "output" of a mapping that has
\* it, else raw itself.
Normalized(raw) ==
    IF IsDict(raw) /\ HasKey(raw, "result") THEN raw.dict["result"]
    ELSE IF IsDict(raw) /\ HasKey(raw, "output") THEN raw.dict["output"]
    ELSE raw

\* The POST of the tool was answered with a JSON body that is its raw result.
ToolHasRawResult ==
    /\ tool.pc \in { "done", "raised" }
    /\ tool.resp.kind = "http"
    /\ ~IsHttpError(tool.resp.status)
    /\ tool.resp.body.kind = "json"

\* C14, get_stock_prediction: a raw result is reported normalized.
C14_ClientNormalization ==
    (pc = "done" /\ ~IsNone(result)) => outcome = Printed(Normalized(result))

\* C14: normalization is total and prioritised. In get_a2a_short_term_prediction
\* every raw result is returned normalized: the value under "result", else the
\* value under "output", else the raw result unchanged; nothing is raised.
C14_NormalizationTotal ==
    ToolHasRawResult => /\ tool.pc = "done"
                        /\ tool.ret = Normalized(tool.resp.body.json)

----------------------------------------------------------------------------
(* C15 *)

\* r is a 2xx answer whose body is not valid JSON.
NonJson2xx(r) == r.kind = "http" /\ r.status \in 200..299 /\ r.body.kind = "text"

\* C15, the /invoke POST of get_stock_prediction: the text of a 2xx body that
\* is not JSON becomes the result.
C15_InvokeTextIsResult ==
    NonJson2xx(invokeResp) => /\ pc \in { "report", "done" }
                              /\ result = Str(invokeResp.body.text)

\* C15, get_a2a_short_term_prediction: the text of a 2xx body that is not JSON
\* is what the call returns.
C15_ToolTextIsResult ==
    NonJson2xx(tool.resp) => /\ tool.pc = "done"
                             /\ tool.ret = Str(tool.resp.body.text)

\* C15: a 2xx answer to a JSON-RPC probe whose body is not valid JSON does not
\* fail the probe: call_jsonrpc returns the text of the body, which becomes
\* the result.
C15_RpcTextIsResult ==
    NonJson2xx(rpcResp) => /\ pc \in { "report", "done" }
                           /\ result = Str(rpcResp.body.text)

----------------------------------------------------------------------------
(* C16 *)

\* _invoke has ended, with a response or with an exception.
InvokeEnded == server.path = INVOKE_PATH /\ server.pc \in { "done", "raised" }

\* The body is a JSON object whose action is one of the two names of the tool.
KnownAction ==
    /\ server.body.kind = "json"
    /\ IsDict(server.body.json)
    /\ Get(server.body.json, "action")
         \in { Str("short_term_predict"), Str("short_term_prediction") }

\* The body of the response is a JSON object that has key k.
ResponseHas(k) ==
    /\ server.resp.body.kind = "json"
    /\ IsDict(server.resp.body.json)
    /\ HasKey(server.resp.body.json, k)

\* C16: _invoke answers every request with one of four outcomes, fixed by the
\* request: 400 for a body that is not decodable, 200 with a result or 500
\* with an error for the two tool actions, 404 for every other action; ok is
\* true exactly when the status is 200; and the handler never raises.
C16_InvokeOutcomes ==
    InvokeEnded =>
        /\ server.pc = "done"
        /\ ResponseHas("ok")
        /\ server.resp.body.json.dict["ok"] = Bool(server.resp.status = 200)
        /\ server.resp.status \in { 200, 400, 404, 500 }
        /\ server.resp.status = 400 <=> server.body.kind = "text"
        /\ server.resp.status \in { 200, 500 } <=> KnownAction
        /\ server.resp.status = 200 => ResponseHas("result")
        /\ server.resp.status = 500 => ResponseHas("error")

\* C16 for the requests whose body is not a JSON value of another type than
\* object: on these _invoke gives the four outcomes.
C16_ObjectBodies ==
    (InvokeEnded /\ (server.body.kind = "text" \/ IsDict(server.body.json)))
        => C16_InvokeOutcomes

----------------------------------------------------------------------------
(* C17 *)

\* _jsonrpc_root has ended, with a response or with an exception.
RootEnded == server.path = ROOT_PATH /\ server.pc \in { "done", "raised" }

\* The body is a JSON object whose method is one the handler recognises.
KnownMethod ==
    /\ server.body.kind = "json"
    /\ IsDict(server.body.json)
    /\ Get(server.body.json, "method") \in RECOGNISED_METHODS

\* The code of the error in the response.
ResponseErrorCode == server.resp.body.json.dict["error"].dict["code"].num

\* C17: _jsonrpc_root answers every request with exactly one of result and
\* error, and the code of the error is fixed by the cause: -32700 for a body
\* that cannot be parsed, -32601 for a method that is not recognised, -32602
\* and -32000 only for a recognised method; and the handler never raises.
C17_RootOutcomes ==
    RootEnded =>
        /\ server.pc = "done"
        /\ ResponseHas("result") # ResponseHas("error")
        /\ ResponseHas("error") =>
              /\ ResponseErrorCode \in { -32700, -32601, -32602, -32000 }
              /\ ResponseErrorCode = -32700 <=> server.body.kind = "text"
              /\ ResponseErrorCode = -32601 <=> (server.body.kind = "json" /\ ~KnownMethod)
              /\ ResponseErrorCode \in { -32602, -32000 } => KnownMethod
        /\ ResponseHas("result") => KnownMethod

\* The search for the ticker does not raise.
TickerSearchEnds ==
    LET p0 == GetOr(server.body.json, "params", EmptyDict)
    IN  RootTicker(IF Truthy(p0) THEN p0 ELSE EmptyDict).kind = "return"

\* C17 for the requests whose body is not JSON or is a JSON object in which
\* the entry of tool_inputs for the tool, if any, is an object: on these
\* _jsonrpc_root gives the outcomes of C17.
C17_WellShapedBodies ==
    (RootEnded /\ (server.body.kind = "text"
                    \/ (IsDict(server.body.json) /\ (KnownMethod => TickerSearchEnds))))
        => C17_RootOutcomes

----------------------------------------------------------------------------
(* C18 *)

\* v is a mapping from date strings to floats.
IsDateMapping(v) ==
    /\ IsDict(v)
    /\ \A k \in DOMAIN v.dict : k \in Range(Dates) /\ v.dict[k].kind = "num"

\* short_term_predict returned after the predictor returned a value.
ReturnedAfterPredictor == predict.pc = "done" /\ predict.series.kind = "return"

\* C18: whenever short_term_predict returns, it returns a mapping from date
\* strings to floats and never nothing: after the predictor raised, after it
\* returned a Series, a dict or an iterable, and also when the conversion of
\* what it returned raises.
C18_AlwaysReturnsMapping ==
    predict.pc = "done" => IsDateMapping(predict.ret)

\* C18 where pandas can be imported and the conversion does not raise: there
\* the call returns a mapping from date strings to floats.
C18_MappingUnlessConversionRaises ==
    (predict.pc = "done" /\ predict.pandas
       /\ (predict.series.kind = "return"
              => Convert(predict.series.value, predict.today).kind = "return"))
        => IsDateMapping(predict.ret)

----------------------------------------------------------------------------
(* C19 *)

\* The frames a call that runs alone can be in once it has received exactly
\* the answers as, in order, from the frame f.
RECURSIVE Alone(_, _)
Alone(f, as) ==
    IF Waiting(f)
    THEN IF as = << >>
         THEN { f }
         ELSE UNION { Alone(h, Tail(as)) : h \in Steps(f, ModuleGlobals, Head(as)) }
    ELSE (IF as = << >> THEN { f } ELSE { })
         \cup UNION { Alone(h, as) : h \in Steps(f, ModuleGlobals, NoResp) }

\* The variables of get_stock_prediction as a frame.
CurrentFrame ==
    [pc |-> pc, ticker |-> ticker, reqs |-> reqs, cardResp |-> cardResp,
     agent_card |-> agent_card, candidates |-> candidates, tried |-> tried,
     rpcResp |-> rpcResp, result |-> result, invokeResp |-> invokeResp,
     outcome |-> outcome, exc |-> exc]

\* Steps is the next-state relation of get_stock_prediction: every step of
\* Next is one of Steps, with the answer the step received.
StepsAgreeWithNext ==
    [][CurrentFrame' \in Steps(CurrentFrame, ModuleGlobals,
                               CASE pc = "card_wait" -> cardResp'
                                 [] pc = "rpc_wait" -> rpcResp'
                                 [] pc \in { "fallback_wait", "direct_wait" } -> invokeResp'
                                 [] OTHER -> NoResp)]_vars

\* C19: two concurrent calls share no mutable state: under every interleaving
\* the locals of each call (its candidate list, its requests, its outcome)
\* are what a call running alone has after the same answers, and the
\* module-level names keep their values.
C19_CallsAreIndependent ==
    /\ globals = ModuleGlobals
    /\ \A i \in CallIds :
         calls.frames[i] \in Alone(StartFrame(TickerOf(i)), calls.answers[i])

\* Both calls are in the middle of their probing at once, call 1 with two
\* candidates and call 2 with one, and each has POSTed its own ticker.
C19_Witness ==
    /\ calls.frames[1].pc = "rpc_wait"
    /\ calls.frames[2].pc = "rpc_wait"
    /\ calls.frames[1].candidates = << Str("model"), Str("x") >>
    /\ calls.frames[2].candidates = << Str("model") >>
    /\ calls.frames[1].tried = 2
    /\ calls.frames[1].reqs[3] = RpcRequest(Str("x"), Str("TNA"))
    /\ calls.frames[2].reqs[2] = RpcRequest(Str("model"), Str("MSFT"))

\* Both calls have returned, with different outcomes.
C19_WitnessDone ==
    /\ calls.frames[1].pc = "done"
    /\ calls.frames[2].pc = "done"
    /\ calls.frames[1].outcome = Unavailable
    /\ calls.frames[2].outcome = Printed(Forecast)

----------------------------------------------------------------------------
(* C20 *)

\* The day whose date string is k.
DayOf(k) == CHOOSE d \in 0..(Len(Dates) - 1) : DateStr(d) = k

\* The number of values predicted: those the predictor returned, or the days
\* random ones of the fallback.
PredictedCount ==
    IF predict.series.kind = "return"
    THEN Len(predict.series.value.values)
    ELSE predict.days

\* The days of a datetime index without weekend dates, or of dict keys that
\* all parse to weekdays: the dates short_term_predict keeps. The empty set
\* when it synthesizes dates.
KeptDays ==
    IF predict.series.kind # "return" THEN { }
    ELSE LET x == predict.series.value
         IN  IF x.kind = "series" /\ x.index = "datetime"
             THEN { DateOf(t) : t \in Range(x.stamps) }
             ELSE IF x.kind = "mapping" /\ (\A k \in Range(x.keys) : ToDatetime(k) # Missing)
             THEN { DateOf(ToDatetime(k)) : k \in Range(x.keys) }
             ELSE { }

KeepsDates == KeptDays # { } /\ \A d \in KeptDays : ~IsWeekend(d)

\* short_term_predict returned a mapping and pandas can be imported.
ReturnedWithPandas == predict.pc = "done" /\ predict.pandas /\ IsDict(predict.ret)

NoWeekendKey == \A k \in DOMAIN predict.ret.dict : ~IsWeekend(DayOf(k))

\* C20 as stated: with pandas no key of the returned mapping is a Saturday or
\* a Sunday, and the mapping has exactly one entry per predicted value.
C20_NoWeekendOneEntryPerValue ==
    ReturnedWithPandas =>
        /\ NoWeekendKey
        /\ Cardinality(DOMAIN predict.ret.dict) = PredictedCount

\* C20: with pandas no key of the returned mapping is a Saturday or a Sunday,
\* whatever the predictor returned and on the random fallback; the mapping
\* has one entry per predicted value where the dates are synthesized, and
\* one entry per distinct date where the dates of the predictor are kept.
C20_NoWeekendOneEntryPerDate ==
    ReturnedWithPandas =>
        /\ NoWeekendKey
        /\ Cardinality(DOMAIN predict.ret.dict)
             = IF KeepsDates THEN Cardinality(KeptDays) ELSE PredictedCount

\* Run on a Friday, the predictor returned two values under a datetime index
\* with a Saturday: the mapping holds them under the next Monday and Tuesday.
C20_Witness ==
    /\ ReturnedWithPandas
    /\ predict.today = 4
    /\ predict.series.kind = "return"
    /\ predict.series.value.kind = "series"
    /\ predict.series.value.index = "datetime"
    /\ \E t \in Range(predict.series.value.stamps) : IsWeekend(DateOf(t))
    /\ DOMAIN predict.ret.dict = { "2024-01-08", "2024-01-09" }

\* The dates of the predictor are kept: two values on two weekdays.
C20_WitnessKept ==
    /\ ReturnedWithPandas
    /\ KeepsDates
    /\ DOMAIN predict.ret.dict = { "2024-01-02", "2024-01-03" }

\* The random fallback run on a Saturday.
C20_WitnessFallback ==
    /\ ReturnedWithPandas
    /\ predict.series.kind = "raise"
    /\ predict.today = 5
    /\ DOMAIN predict.ret.dict = { "2024-01-08", "2024-01-09" }

----------------------------------------------------------------------------
(* C21 *)

\* The call of the tool has ended, by a return or by an exception.
ToolEnded == tool.pc \in { "done", "raised" }

\* The ticker is a non-empty string.
ValidTicker == IsStr(tool.ticker) /\ tool.ticker.str # ""

\* The call returned a mapping with the key "error".
ReturnedError == tool.pc = "done" /\ IsDict(tool.ret) /\ HasKey(tool.ret, "error")

\* The tool rejects a ticker that is empty or not a string without a request,
\* and for a valid ticker issues one POST to /invoke, and nothing else, that
\* carries the ticker in upper case.
OnePostOrNone ==
    /\ (ToolEnded /\ ~ValidTicker) => (ReturnedError /\ tool.reqs = << >>)
    /\ (ToolEnded /\ ValidTicker) =>
          /\ Len(tool.reqs) = 1
          /\ tool.reqs[1].verb = "POST"
          /\ tool.reqs[1].path = "/invoke"
          /\ tool.reqs[1].json.dict["action"] = Str("short_term_predict")
          /\ tool.reqs[1].json.dict["kwargs"].dict["ticker"]
               = (IF tool.ticker.str \in { "tna", "TNA" } THEN Str("TNA") ELSE Str("MSFT"))
    /\ Len(tool.reqs) <= 1

\* C21 as stated: no request for an invalid ticker, one POST for a valid one,
\* and every failure of the POST, a status that is not 2xx included, is
\* returned as a mapping with the key "error".
C21_FailuresAreErrorMappings ==
    /\ OnePostOrNone
    /\ (ToolEnded /\ (tool.resp.kind = "netfail"
                        \/ (tool.resp.kind = "http" /\ tool.resp.status \notin 200..299)))
         => ReturnedError

\* C21: no request for an invalid ticker, one POST to /invoke carrying the
\* upper-cased ticker for a valid one, and every failure of the POST (a
\* network failure, a 4xx or 5xx status, 404 included) is returned as a
\* mapping with the key "error", never raised.
C21_HttpErrorsAreErrorMappings ==
    /\ OnePostOrNone
    /\ (ToolEnded /\ (tool.resp.kind = "netfail"
                        \/ (tool.resp.kind = "http" /\ IsHttpError(tool.resp.status))))
         => ReturnedError

\* The ticker tna was POSTed as TNA, /invoke answered 404 with a forecast in
\* its body, and the call returned an error mapping.
C21_Witness ==
    /\ tool.ticker = Str("tna")
    /\ Len(tool.reqs) = 1
    /\ tool.resp = Http(404, Json(Forecast))
    /\ ReturnedError

\* An empty ticker is rejected without a request.
C21_WitnessRejected ==
    /\ tool.ticker = Str("")
    /\ tool.reqs = << >>
    /\ ReturnedError

----------------------------------------------------------------------------
(* C22 *)

\* No close price is available: no data was obtained (yfinance is absent,
\* the download failed or returned None), the data has no Close column, or
\* every value of the column is missing.
NoClosePrices ==
    \/ forecaster.data = Unbound
    \/ forecaster.data = None
    \/ "Close" \notin forecaster.data.columns
    \/ \A i \in DOMAIN forecaster.data.close : forecaster.data.close[i].value = NaN

\* The day of the last close price.
LastObserved ==
    LET col == forecaster.data.close
    IN  col[CHOOSE i \in DOMAIN col :
               /\ col[i].value # NaN
               /\ \A j \in DOMAIN col : col[j].value # NaN => j <= i].day

\* x is a forecast of n entries on a daily date index: n values under n
\* dates, one per day, in order, all after the day last.
DailyForecast(x, n, last) ==
    /\ x.kind = "series"
    /\ x.index = "datetime"
    /\ Len(x.values) = n
    /\ Len(x.stamps) = n
    /\ \A i \in 1..n : x.stamps[i].day > last /\ x.stamps[i].hour = 0
    /\ \A i, j \in 1..n : i < j => x.stamps[i].day < x.stamps[j].day

\* x is the naive forecast: n values on the n days that follow last, each
\* the last price, or the last price compounded by the mean return.
IsNaive(x, n, last) ==
    /\ DailyForecast(x, n, last)
    /\ \A i \in 1..n :
         /\ x.stamps[i].day = last + i
         /\ x.values[i].kind \in { "num", "compound" }
         /\ x.values[i].kind = "compound" => x.values[i].periods = i

C22_WitnessNoPrices ==
    /\ forecaster.pc = "raised"
    /\ forecaster.exc = "RuntimeError"
    /\ forecaster.data # None
    /\ "Close" \in forecaster.data.columns
    /\ Len(forecaster.data.close) = 2

====
